---------------------------- MODULE Spec2Model ----------------------------
(***************************************************************************)
(* Model of the caching layer of the travel-itinerary API:                 *)
(*   src/config/redis.js                  the key/value adapter and caches *)
(*   src/controllers/itineraryController.js   the request handlers         *)
(* Strings that take part in key building are sequences of one-character   *)
(* strings, so that JSON.stringify, base64 and Redis glob matching are     *)
(* computed, not assumed.                                                  *)
(***************************************************************************)
EXTENDS Integers, Sequences, FiniteSets, TLC

(***************************************************************************)
(* Bounds of the model.                                                    *)
(***************************************************************************)
\* number of user ids taken from UserPool
NumUsers == 2
\* number of query strings taken from QueryPool
NumQueries == 2
\* number of itineraries ever created (ObjectIds are never reused)
MaxItins == 2
\* number of requests started in a behaviour of the sequential spec
MaxSeqOps == 4
\* number of requests started in a behaviour of the concurrent spec
MaxConcOps == 3
\* number of request slots (requests in flight at once) in the concurrent spec
MaxReq == 2
\* number of direct calls of cache operations in the cache-level spec
MaxCalls == 3
MaxTimedOps == 3
MaxAttempts == 12

(***************************************************************************)
(* Text: characters, ASCII codes, base64.                                  *)
(***************************************************************************)
\* printable ASCII, code 32 at index 1 (codes 92 and 96 are named: no
\* string of the model holds a backslash or a backtick)
Ascii ==
    << " ", "!", "\"", "#", "$", "%", "&", "'", "(", ")", "*", "+", ",", "-", ".", "/",
       "0", "1", "2", "3", "4", "5", "6", "7", "8", "9", ":", ";", "<", "=", ">", "?",
       "@", "A", "B", "C", "D", "E", "F", "G", "H", "I", "J", "K", "L", "M", "N", "O",
       "P", "Q", "R", "S", "T", "U", "V", "W", "X", "Y", "Z", "[", "backslash", "]", "^", "_",
       "backtick", "a", "b", "c", "d", "e", "f", "g", "h", "i", "j", "k", "l", "m", "n", "o",
       "p", "q", "r", "s", "t", "u", "v", "w", "x", "y", "z", "{", "|", "}", "~" >>

\* the byte of a character (Buffer.from(str): UTF-8, here ASCII)
Ord(c) == 31 + (CHOOSE i \in 1..Len(Ascii) : Ascii[i] = c)

Base64Alphabet ==
    << "A", "B", "C", "D", "E", "F", "G", "H", "I", "J", "K", "L", "M", "N", "O", "P",
       "Q", "R", "S", "T", "U", "V", "W", "X", "Y", "Z", "a", "b", "c", "d", "e", "f",
       "g", "h", "i", "j", "k", "l", "m", "n", "o", "p", "q", "r", "s", "t", "u", "v",
       "w", "x", "y", "z", "0", "1", "2", "3", "4", "5", "6", "7", "8", "9", "+", "/" >>

Sextet(n) == Base64Alphabet[n + 1]

\* Buffer.from(s).toString('base64'): three bytes to four sextets, '=' padding
RECURSIVE Base64(_)
Base64(s) ==
    IF Len(s) = 0 THEN << >>
    ELSE IF Len(s) = 1 THEN
        LET a == Ord(s[1])
        IN  << Sextet(a \div 4), Sextet((a % 4) * 16), "=", "=" >>
    ELSE IF Len(s) = 2 THEN
        LET a == Ord(s[1])
            b == Ord(s[2])
        IN  << Sextet(a \div 4), Sextet((a % 4) * 16 + b \div 16),
               Sextet((b % 16) * 4), "=" >>
    ELSE
        LET a == Ord(s[1])
            b == Ord(s[2])
            c == Ord(s[3])
        IN  << Sextet(a \div 4), Sextet((a % 4) * 16 + b \div 16),
               Sextet((b % 16) * 4 + c \div 64), Sextet(c % 64) >>
            \o Base64(SubSeq(s, 4, Len(s)))

(***************************************************************************)
(* JavaScript values that reach a cache key or a cache entry: undefined,   *)
(* null, booleans, numbers, strings, arrays, objects. An array holds its   *)
(* elements in s, an object its <<name, value>> pairs in insertion order.  *)
(***************************************************************************)
Undefined == [t |-> "undefined", n |-> 0, s |-> << >>]
Num(n) == [t |-> "number", n |-> n, s |-> << >>]
Str(s) == [t |-> "string", n |-> 0, s |-> s]
JsNull == [t |-> "null", n |-> 0, s |-> << >>]
Bool(b) == [t |-> "boolean", n |-> IF b THEN 1 ELSE 0, s |-> << >>]
Arr(items) == [t |-> "array", n |-> 0, s |-> items]
Obj(pairs) == [t |-> "object", n |-> 0, s |-> pairs]

Digits == << "0", "1", "2", "3", "4", "5", "6", "7", "8", "9" >>

\* String(n) for a natural number
RECURSIVE NumToChars(_)
NumToChars(n) ==
    IF n < 10 THEN << Digits[n + 1] >>
    ELSE NumToChars(n \div 10) \o << Digits[(n % 10) + 1] >>

\* parseInt of a string of digits (the validator admits only integers)
RECURSIVE CharsToNum(_)
CharsToNum(s) ==
    IF Len(s) = 0 THEN 0
    ELSE 10 * CharsToNum(SubSeq(s, 1, Len(s) - 1))
         + ((CHOOSE i \in 1..10 : Digits[i] = s[Len(s)]) - 1)

parseInt(v) == IF v.t = "number" THEN v.n ELSE CharsToNum(v.s)

\* a text that leaves every character as it is
EscapeNone(s) == s
\* the text of a string inside its quotes: a quote and a backslash are
\* escaped with a backslash
RECURSIVE Escape(_)
Escape(s) ==
    IF Len(s) = 0 THEN << >>
    ELSE (IF s[1] \in {"\"", "backslash"} THEN << "backslash", s[1] >> ELSE << s[1] >>)
         \o Escape(Tail(s))

Quote(s) == << "\"" >> \o Escape(s) \o << "\"" >>

\* JSON.stringify of one value. The properties of an object whose value is
\* undefined are left out; an undefined element of an array is printed null.
RECURSIVE StringifyValue(_)
RECURSIVE StringifyMembers(_, _)
RECURSIVE StringifyElements(_, _)
StringifyValue(v) ==
    IF v.t = "number" THEN NumToChars(v.n)
    ELSE IF v.t = "string" THEN Quote(v.s)
    ELSE IF v.t = "boolean"
         THEN (IF v.n = 1 THEN << "t", "r", "u", "e" >> ELSE << "f", "a", "l", "s", "e" >>)
    ELSE IF v.t = "array" THEN << "[" >> \o StringifyElements(v.s, TRUE) \o << "]" >>
    ELSE IF v.t = "object" THEN << "{" >> \o StringifyMembers(v.s, TRUE) \o << "}" >>
    ELSE << "n", "u", "l", "l" >>

StringifyMembers(pairs, first) ==
    IF Len(pairs) = 0 THEN << >>
    ELSE
        LET p == pairs[1]
            rest == SubSeq(pairs, 2, Len(pairs))
        IN  IF p[2].t = "undefined" THEN StringifyMembers(rest, first)
            ELSE (IF first THEN << >> ELSE << "," >>)
                 \o Quote(p[1]) \o << ":" >> \o StringifyValue(p[2])
                 \o StringifyMembers(rest, FALSE)

StringifyElements(items, first) ==
    IF Len(items) = 0 THEN << >>
    ELSE (IF first THEN << >> ELSE << "," >>)
         \o StringifyValue(items[1])
         \o StringifyElements(Tail(items), FALSE)

\* a value that JSON represents: no undefined inside it
RECURSIVE JsonRepresentable(_)
JsonRepresentable(v) ==
    IF v.t = "undefined" THEN FALSE
    ELSE IF v.t = "array" THEN \A i \in 1..Len(v.s) : JsonRepresentable(v.s[i])
    ELSE IF v.t = "object" THEN \A i \in 1..Len(v.s) : JsonRepresentable(v.s[i][2])
    ELSE TRUE

JSONstringifyObject(pairs) == << "{" >> \o StringifyMembers(pairs, TRUE) \o << "}" >>

\* JSON.parse, by recursive descent from position i of the text t: the
\* value read and the position after it, or no value
NoParse == [ok |-> FALSE, val |-> Undefined, next |-> 0]
Parsed(v, i) == [ok |-> TRUE, val |-> v, next |-> i]
At(t, i) == IF i <= Len(t) THEN t[i] ELSE "end"
Literal(t, i, word) ==
    i + Len(word) - 1 <= Len(t) /\ SubSeq(t, i, i + Len(word) - 1) = word

\* the characters of a string up to its closing quote (the escapes other
\* than of a quote, a backslash and a slash name characters that no string
\* of the model holds)
RECURSIVE ParseString(_, _, _)
ParseString(t, i, acc) ==
    IF i > Len(t) THEN NoParse
    ELSE IF t[i] = "\"" THEN Parsed(Str(acc), i + 1)
    ELSE IF t[i] = "backslash"
         THEN IF At(t, i + 1) \in {"\"", "backslash", "/"}
              THEN ParseString(t, i + 2, Append(acc, t[i + 1]))
              ELSE NoParse
    ELSE ParseString(t, i + 1, Append(acc, t[i]))

RECURSIVE ParseDigits(_, _, _)
ParseDigits(t, i, n) ==
    IF \E d \in 1..10 : Digits[d] = At(t, i)
    THEN ParseDigits(t, i + 1, 10 * n + (CHOOSE d \in 1..10 : Digits[d] = t[i]) - 1)
    ELSE Parsed(Num(n), i)

RECURSIVE ParseValue(_, _)
RECURSIVE ParseElements(_, _, _)
RECURSIVE ParseMembers(_, _, _)
ParseValue(t, i) ==
    LET c == At(t, i)
    IN  IF c = " " THEN ParseValue(t, i + 1)
        ELSE IF c = "\"" THEN ParseString(t, i + 1, << >>)
        ELSE IF c = "0" THEN Parsed(Num(0), i + 1)
        ELSE IF \E d \in 2..10 : Digits[d] = c THEN ParseDigits(t, i, 0)
        ELSE IF c = "[" THEN (IF At(t, i + 1) = "]" THEN Parsed(Arr(<< >>), i + 2)
                              ELSE ParseElements(t, i + 1, << >>))
        ELSE IF c = "{" THEN (IF At(t, i + 1) = "}" THEN Parsed(Obj(<< >>), i + 2)
                              ELSE ParseMembers(t, i + 1, << >>))
        ELSE IF Literal(t, i, << "n", "u", "l", "l" >>) THEN Parsed(JsNull, i + 4)
        ELSE IF Literal(t, i, << "t", "r", "u", "e" >>) THEN Parsed(Bool(TRUE), i + 4)
        ELSE IF Literal(t, i, << "f", "a", "l", "s", "e" >>) THEN Parsed(Bool(FALSE), i + 5)
        ELSE NoParse

\* the result of Then for the value x, x evaluated once
Bind(x, Then(_)) == CHOOSE r \in { Then(v) : v \in {x} } : TRUE

ParseElements(t, i, acc) ==
    Bind(ParseValue(t, i), LAMBDA v :
        IF ~v.ok THEN NoParse
        ELSE IF At(t, v.next) = "," THEN ParseElements(t, v.next + 1, Append(acc, v.val))
        ELSE IF At(t, v.next) = "]" THEN Parsed(Arr(Append(acc, v.val)), v.next + 1)
        ELSE NoParse)

ParseMembers(t, i, acc) ==
    IF At(t, i) # "\"" THEN NoParse
    ELSE Bind(ParseString(t, i + 1, << >>), LAMBDA k :
        IF ~k.ok \/ At(t, k.next) # ":" THEN NoParse
        ELSE Bind(ParseValue(t, k.next + 1), LAMBDA v :
            IF ~v.ok THEN NoParse
            ELSE IF At(t, v.next) = ","
                 THEN ParseMembers(t, v.next + 1, Append(acc, << k.val.s, v.val >>))
            ELSE IF At(t, v.next) = "}"
                 THEN Parsed(Obj(Append(acc, << k.val.s, v.val >>)), v.next + 1)
            ELSE NoParse))

(***************************************************************************)
(* Inputs: user ids, itinerary ids, query strings, payloads.               *)
(***************************************************************************)
\* req.user._id / userId as `${userId}` prints it; the second id has the
\* first as a prefix
UserPool == << << "4", "2" >>, << "4", "2", "1" >>, << "4", "3" >> >>
Users == { UserPool[i] : i \in 1..NumUsers }

\* itinerary._id.toString(), in creation order
ItinPool == << << "a", "1" >>, << "a", "2" >>, << "a", "3" >> >>
ItinIds == { ItinPool[i] : i \in 1..MaxItins }

\* property names of the cache-key objects
kPage == << "p", "a", "g", "e" >>
kLimit == << "l", "i", "m", "i", "t" >>
kSort == << "s", "o", "r", "t" >>
kStatus == << "s", "t", "a", "t", "u", "s" >>
kIsPublic == << "i", "s", "P", "u", "b", "l", "i", "c" >>
kSearch == << "s", "e", "a", "r", "c", "h" >>
kDestination == << "d", "e", "s", "t", "i", "n", "a", "t", "i", "o", "n" >>

\* req.query as express parses it: every value is a string or is absent.
\* 1: no parameter; 2: the defaults passed explicitly; 3: second page of
\* one; 4: a destination filter
NoQuery ==
    [page |-> Undefined, limit |-> Undefined, sort |-> Undefined,
     status |-> Undefined, isPublic |-> Undefined, search |-> Undefined,
     destination |-> Undefined]
QueryPool ==
    << NoQuery,
       [NoQuery EXCEPT !.page = Str(<< "1" >>), !.limit = Str(<< "1", "0" >>),
                       !.sort = Str(<< "-", "c", "r", "e", "a", "t", "e", "d", "A", "t" >>)],
       [NoQuery EXCEPT !.page = Str(<< "2" >>), !.limit = Str(<< "1" >>)],
       [NoQuery EXCEPT !.destination = Str(<< "r", "o", "m" >>)] >>
Queries == { QueryPool[i] : i \in 1..NumQueries }

(***************************************************************************)
(* The key/value service: a keyspace, key -> [val, ttl].                   *)
(***************************************************************************)
VARIABLES
    redisClient,    \* the module's shared handle: "null" or "client"
    service,        \* "up", or "down": every command on the client rejects
    cache,          \* the keyspace of the service
    conn,           \* what connectRedis returned: "none" before it is called
    pend,           \* the direct pattern invalidation in flight or last made
    calls,          \* number of direct calls made
    store,          \* the itineraries collection: _id -> document
    created,        \* number of itineraries ever created
    reqs,           \* request slot -> the request it handles
    ops,            \* number of requests started
    ver,            \* history: number of mutations of the store so far
    asOf,           \* history: list key -> store version its entry was read at
    invalDone,      \* history: user -> version of the user's latest write
                    \*          whose cache invalidation has completed
    retry           \* the connection attempt of connectRedis and its retries

\* Redis glob matching (stringmatchlen): literal characters, '?' and '*'
RECURSIVE GlobMatch(_, _)
GlobMatch(p, s) ==
    IF Len(p) = 0 THEN Len(s) = 0
    ELSE IF p[1] = "*" THEN
        \E k \in 0..Len(s) : GlobMatch(Tail(p), SubSeq(s, k + 1, Len(s)))
    ELSE IF Len(s) = 0 THEN FALSE
    ELSE IF p[1] = "?" \/ p[1] = s[1] THEN GlobMatch(Tail(p), Tail(s))
    ELSE FALSE

\* GET: the stored string, or nil
RedisGet(c, key) == IF key \in DOMAIN c THEN [nil |-> FALSE, val |-> c[key].val]
                    ELSE [nil |-> TRUE]
\* SETEX key ttl value
RedisSetEx(c, key, ttl, val) ==
    [k \in DOMAIN c \cup {key} |->
        IF k = key THEN [val |-> val, ttl |-> ttl] ELSE c[k]]
\* DEL key [key ...]
RedisDel(c, keys) == [k \in DOMAIN c \ keys |-> c[k]]
\* KEYS pattern
RedisKeys(c, pattern) == { k \in DOMAIN c : GlobMatch(pattern, k) }



(***************************************************************************)
(* src/controllers/itineraryController.js: the cache-key objects.          *)
(***************************************************************************)
\* a destructuring default: `page = 1` takes the default when the
\* parameter is undefined, otherwise the string of the query
OrDefault(v, d) == IF v.t = "undefined" THEN d ELSE v

DefaultPage == 1
DefaultLimit == 10
DefaultSort == << "-", "c", "r", "e", "a", "t", "e", "d", "A", "t" >>

\* getItineraries: { page, limit, sort, status, isPublic, search, destination }
ListCacheKey(q) ==
    << << kPage, OrDefault(q.page, Num(DefaultPage)) >>,
       << kLimit, OrDefault(q.limit, Num(DefaultLimit)) >>,
       << kSort, OrDefault(q.sort, Str(DefaultSort)) >>,
       << kStatus, q.status >>,
       << kIsPublic, q.isPublic >>,
       << kSearch, q.search >>,
       << kDestination, q.destination >> >>

\* getPublicItineraries: { page, limit, sort, destination, search }
PublicCacheKey(q) ==
    << << kPage, OrDefault(q.page, Num(DefaultPage)) >>,
       << kLimit, OrDefault(q.limit, Num(DefaultLimit)) >>,
       << kSort, OrDefault(q.sort, Str(DefaultSort)) >>,
       << kDestination, q.destination >>,
       << kSearch, q.search >> >>

(***************************************************************************)
(* src/config/redis.js: keys, serialisation, and the outcome of a call.    *)
(***************************************************************************)
UserTTL == 3600
ItineraryTTL == 1800
ItineraryListTTL == 600
PublicItinerariesTTL == 300
DefaultTTL == 3600

\* `user:${userId}`
UserKey(userId) == << "u", "s", "e", "r", ":" >> \o userId
\* `itinerary:${itineraryId}`
ItineraryKey(itineraryId) == << "i", "t", "i", "n", "e", "r", "a", "r", "y", ":" >> \o itineraryId
\* a list key that leaves the user out: `itineraries:${base64}`
ItineraryListKeyNoUser(userId, filters) ==
    << "i", "t", "i", "n", "e", "r", "a", "r", "i", "e", "s", ":" >> \o Base64(JSONstringifyObject(filters))
\* `itineraries:${userId}:${Buffer.from(JSON.stringify(filters)).toString('base64')}`
ItineraryListKey(userId, filters) ==
    << "i", "t", "i", "n", "e", "r", "a", "r", "i", "e", "s", ":" >> \o userId \o << ":" >> \o Base64(JSONstringifyObject(filters))
\* `public_itineraries:${Buffer.from(JSON.stringify(filters)).toString('base64')}`
PublicItinerariesKey(filters) ==
    << "p", "u", "b", "l", "i", "c", "_", "i", "t", "i", "n", "e", "r", "a", "r", "i", "e", "s", ":" >> \o Base64(JSONstringifyObject(filters))
\* a pattern that lacks the ':' that ends the user id: `itineraries:${userId}*`
UserItinerariesPatternNoColon(userId) == << "i", "t", "i", "n", "e", "r", "a", "r", "i", "e", "s", ":" >> \o userId \o << "*" >>
\* `itineraries:${userId}:*`
UserItinerariesPattern(userId) == << "i", "t", "i", "n", "e", "r", "a", "r", "i", "e", "s", ":" >> \o userId \o << ":", "*" >>
\* 'public_itineraries:*'
PublicItinerariesPattern == << "p", "u", "b", "l", "i", "c", "_", "i", "t", "i", "n", "e", "r", "a", "r", "i", "e", "s", ":" >> \o << "*" >>

ListFilters == { ListCacheKey(q) : q \in Queries }
PublicFilters == { PublicCacheKey(q) : q \in Queries }

\* The keys of the inputs of the model, computed once: a table of the key
\* builders above over the bounded inputs (the builders are pure).
ListKeyTable == [u \in Users, f \in ListFilters |-> ItineraryListKey(u, f)]
PublicKeyTable == [f \in PublicFilters |-> PublicItinerariesKey(f)]
ListKeyOf(userId, filters) ==
    IF << userId, filters >> \in DOMAIN ListKeyTable THEN ListKeyTable[userId, filters]
    ELSE ItineraryListKey(userId, filters)
PublicKeyOf(filters) ==
    IF filters \in DOMAIN PublicKeyTable THEN PublicKeyTable[filters]
    ELSE PublicItinerariesKey(filters)

\* the list keys of a user, and of the public lists, over the inputs
UserListKeys(u) == { ListKeyOf(u, f) : f \in ListFilters }
PublicListKeys == { PublicKeyOf(f) : f \in PublicFilters }

\* JSON.stringify(data): the text of the value
JSONstringify(data) == StringifyValue(data)
\* JSON.parse(text): the value, or a SyntaxError
JSONparse(text) ==
    Bind(ParseValue(text, 1), LAMBDA r :
        IF r.ok /\ r.next = Len(text) + 1 THEN [threw |-> FALSE, doc |-> r.val]
        ELSE [threw |-> TRUE, doc |-> Undefined])

\* what a get returns: null, or the parsed value (which may be null)
Null == [nil |-> TRUE]
Some(v) == IF v.t = "null" THEN Null ELSE [nil |-> FALSE, val |-> v]

\* What a call of a cache operation did: the keyspace after it, what it
\* returned, whether it threw to its caller, whether it issued a command on
\* the client, whether it caught (and logged) an error, and, for a pattern
\* invalidation, the keys it still has to delete.
Outcome(c, ret, threw, contacted, failed) ==
    [cache |-> c, ret |-> ret, threw |-> threw, contacted |-> contacted,
     failed |-> failed, more |-> FALSE, keys |-> {}]
\* `if (!redisClient) return;` / `return null;`
Skipped == Outcome(cache, Null, FALSE, FALSE, FALSE)
\* the command rejected; the catch block logs and returns (null for a get)
Caught == Outcome(cache, Null, FALSE, TRUE, TRUE)
\* the command was carried out
Done(c, ret) == Outcome(c, ret, FALSE, TRUE, FALSE)

\* the shape of every set operation: guard, try { setEx } catch { log }
SetOp(key, ttl, data) ==
    IF redisClient = "null" THEN Skipped
    ELSE IF service = "down" THEN Caught
    ELSE Done(RedisSetEx(cache, key, ttl, JSONstringify(data)), Null)

\* a get whose JSON.parse is outside the try block: the SyntaxError of a
\* malformed payload is the caller's
GetOpParseUncaught(key) ==
    IF redisClient = "null" THEN Skipped
    ELSE IF service = "down" THEN Caught
    ELSE LET data == RedisGet(cache, key)
         IN  IF data.nil \/ data.val = << >> THEN Done(cache, Null)
             ELSE Bind(JSONparse(data.val),
                       LAMBDA parsed : IF parsed.threw
                                       THEN Outcome(cache, Null, TRUE, TRUE, FALSE)
                                       ELSE Done(cache, Some(parsed.doc)))

\* the shape of every get operation:
\* guard, try { data = get; return data ? JSON.parse(data) : null } catch { null }
GetOp(key) ==
    IF redisClient = "null" THEN Skipped
    ELSE IF service = "down" THEN Caught
    ELSE LET data == RedisGet(cache, key)
         IN  IF data.nil \/ data.val = << >> THEN Done(cache, Null)
             ELSE Bind(JSONparse(data.val),
                       LAMBDA parsed : IF parsed.threw THEN Caught
                                       ELSE Done(cache, Some(parsed.doc)))

\* the shape of every single-key delete: guard, try { del } catch { log }
DelOp(key) ==
    IF redisClient = "null" THEN Skipped
    ELSE IF service = "down" THEN Caught
    ELSE Done(RedisDel(cache, {key}), Null)

\* a pattern invalidation up to its first await: guard, keys = KEYS pattern;
\* with no key it is over, otherwise DEL keys is still to come
KeysOp(pattern) ==
    IF redisClient = "null" THEN Skipped
    ELSE IF service = "down" THEN Caught
    ELSE LET keys == RedisKeys(cache, pattern)
         IN  [Done(cache, Null) EXCEPT !.more = keys # {}, !.keys = keys]

\* a DEL that is given one key of the batch only: del(keys[0])
DelKeysOpFirstOnly(keys) ==
    IF service = "down" THEN Caught
    ELSE Done(RedisDel(cache, {CHOOSE k \in keys : TRUE}), Null)
\* a pattern invalidation from its second await: DEL keys
DelKeysOp(keys) ==
    IF service = "down" THEN Caught
    ELSE Done(RedisDel(cache, keys), Null)

\* a get written like closeRedis, with neither the guard nor the try block:
\* the TypeError of a null handle and the rejection of the command are the
\* caller's
GetOpUnguarded(key) ==
    IF redisClient = "null" THEN Outcome(cache, Null, TRUE, FALSE, FALSE)
    ELSE IF service = "down" THEN Outcome(cache, Null, TRUE, TRUE, FALSE)
    ELSE LET data == RedisGet(cache, key)
         IN  IF data.nil \/ data.val = << >> THEN Done(cache, Null)
             ELSE Done(cache, Some(JSONparse(data.val).doc))

cacheUser(userId, userData) == SetOp(UserKey(userId), UserTTL, userData)
getCachedUser(userId) == GetOp(UserKey(userId))
invalidateUserCache(userId) == DelOp(UserKey(userId))

cacheItinerary(itineraryId, itineraryData) ==
    SetOp(ItineraryKey(itineraryId), ItineraryTTL, itineraryData)
getCachedItinerary(itineraryId) == GetOp(ItineraryKey(itineraryId))
\* an invalidation that deletes the key of the user namespace: `user:${id}`
invalidateItineraryCacheUserKey(itineraryId) == DelOp(UserKey(itineraryId))
invalidateItineraryCache(itineraryId) == DelOp(ItineraryKey(itineraryId))

\* a list cached under the key of the request without parameters, whatever
\* the filters
cacheItineraryListNoFilters(userId, filters, data) ==
    SetOp(ListKeyOf(userId, ListCacheKey(NoQuery)), ItineraryListTTL, data)
\* the list cache given the time-to-live of the user cache
cacheItineraryListHourly(userId, filters, data) ==
    SetOp(ListKeyOf(userId, filters), UserTTL, data)
cacheItineraryList(userId, filters, data) ==
    SetOp(ListKeyOf(userId, filters), ItineraryListTTL, data)
getCachedItineraryListUnguarded(userId, filters) ==
    GetOpUnguarded(ListKeyOf(userId, filters))
getCachedItineraryList(userId, filters) == GetOp(ListKeyOf(userId, filters))
\* a write that leaves the lists of its user alone
invalidateUserItineraryCachesNotCalled(userId) == Skipped
invalidateUserItineraryCachesKeys(userId) == KeysOp(UserItinerariesPattern(userId))
\* a delete that scans again and deletes what is there at the time of the DEL
invalidateUserItineraryCachesDelRescan(keys) ==
    DelKeysOp(keys \cup UNION { RedisKeys(cache, UserItinerariesPattern(u)) : u \in Users })
invalidateUserItineraryCachesDel(keys) == DelKeysOp(keys)

cachePublicItineraries(filters, data) ==
    SetOp(PublicKeyOf(filters), PublicItinerariesTTL, data)
getCachedPublicItineraries(filters) == GetOp(PublicKeyOf(filters))
invalidatePublicItineraryCachesKeys == KeysOp(PublicItinerariesPattern)
invalidatePublicItineraryCachesDel(keys) == DelKeysOp(keys)

getCacheUnguarded(key) == GetOpUnguarded(key)
\* cache(key, data, ttl = 3600), getCache(key), deleteCache(key)
cacheData(key, data, ttl) == SetOp(key, ttl, data)
getCache(key) == GetOp(key)
deleteCache(key) == DelOp(key)

\* closeRedis: `if (redisClient) await redisClient.quit()`, with no try:
\* quit() on a client that is not open rejects, and the rejection is the
\* caller's. After quit() the client is closed: its commands reject.
closeRedis ==
    IF redisClient = "null" THEN [threw |-> FALSE, contacted |-> FALSE, service |-> service]
    ELSE IF service = "down" THEN [threw |-> TRUE, contacted |-> TRUE, service |-> service]
    ELSE [threw |-> FALSE, contacted |-> TRUE, service |-> "down"]

\* connectRedis, by what the environment does to it:
\*   "ok"       createClient and connect() succeed: the handle is returned
\*   "refused"  createClient succeeds and has been assigned to redisClient
\*              when connect() rejects: the catch block returns null
\*   "invalid"  createClient throws (a malformed REDIS_URL): the catch block
\*              returns null and redisClient keeps its value
ConnectResults == {"ok", "refused", "invalid"}
connectRedis(how) ==
    IF how = "ok" THEN [redisClient |-> "client", service |-> "up", ret |-> "client"]
    ELSE IF how = "refused" THEN [redisClient |-> "client", service |-> "down", ret |-> "null"]
    ELSE [redisClient |-> redisClient, service |-> service, ret |-> "null"]

\* ---- connectRedis, step by step ---------------------------------------
\* no connection attempt made yet
NoRetry == [phase |-> "idle", attempt |-> 0, total |-> 0, delay |-> 0, error |-> "none"]

\* options.error.code of a failed attempt
ErrorCodes == {"ECONNREFUSED", "ETIMEDOUT", "ENOTFOUND"}
\* milliseconds a failing attempt takes before the strategy is asked
AttemptTimes == {0, 5000, 1000 * 60 * 60}

\* a strategy without the limit on attempts
retry_strategyNoCap(options) ==
    IF options.error = "ECONNREFUSED" THEN [kind |-> "error", ms |-> 0]
    ELSE IF options.total_retry_time > 1000 * 60 * 60 THEN [kind |-> "error", ms |-> 0]
    ELSE [kind |-> "delay",
          ms |-> IF options.attempt * 100 < 3000 THEN options.attempt * 100 ELSE 3000]
\* retry_strategy: (options) => Error | undefined | milliseconds
retry_strategy(options) ==
    IF options.error = "ECONNREFUSED" THEN [kind |-> "error", ms |-> 0]
    ELSE IF options.total_retry_time > 1000 * 60 * 60 THEN [kind |-> "error", ms |-> 0]
    ELSE IF options.attempt > 10 THEN [kind |-> "undefined", ms |-> 0]
    ELSE [kind |-> "delay",
          ms |-> IF options.attempt * 100 < 3000 THEN options.attempt * 100 ELSE 3000]

\* the end of connectRedis: `return redisClient`, or the catch block's
\* `return null`
connectRedisEnd(rejected) == IF rejected THEN "null" ELSE "client"

\* redisClient = redis.createClient({...}), which throws on an invalid url;
\* then connect() is awaited
ConnectCreate ==
    /\ conn = "none"
    /\ retry.phase = "idle"
    /\ \/ /\ conn' = connectRedisEnd(TRUE)
          /\ retry' = [retry EXCEPT !.phase = "done"]
          /\ UNCHANGED << redisClient, service >>
       \/ /\ redisClient' = "client"
          /\ service' = "down"
          /\ retry' = [retry EXCEPT !.phase = "connecting"]
          /\ UNCHANGED conn
    /\ UNCHANGED << cache, pend, calls, store, created, reqs, ops, ver, asOf, invalDone >>

\* the connection is established: connect() resolves
ConnectOk ==
    /\ retry.phase = "connecting"
    /\ service' = "up"
    /\ conn' = connectRedisEnd(FALSE)
    /\ retry' = [retry EXCEPT !.phase = "done", !.delay = 0]
    /\ UNCHANGED << redisClient, cache, pend, calls, store, created, reqs, ops, ver,
                    asOf, invalDone >>

\* an attempt fails: the strategy gives the delay before the next attempt,
\* or ends the retries, and then connect() rejects
ConnectError ==
    /\ retry.phase = "connecting"
    /\ retry.attempt < MaxAttempts
    /\ \E code \in ErrorCodes, t \in AttemptTimes :
          LET options == [error |-> code, attempt |-> retry.attempt + 1,
                          total_retry_time |-> retry.total + retry.delay + t]
              r == retry_strategy(options)
          IN  IF r.kind = "delay"
              THEN /\ retry' = [phase |-> "connecting", attempt |-> options.attempt,
                                total |-> options.total_retry_time, delay |-> r.ms,
                                error |-> code]
                   /\ UNCHANGED conn
              ELSE /\ retry' = [phase |-> "done", attempt |-> options.attempt,
                                total |-> options.total_retry_time, delay |-> 0,
                                error |-> code]
                   /\ conn' = connectRedisEnd(TRUE)
    /\ UNCHANGED << redisClient, service, cache, pend, calls, store, created, reqs,
                    ops, ver, asOf, invalDone >>

(***************************************************************************)
(* Direct calls of the exported cache operations (any caller of redis.js). *)
(***************************************************************************)
\* userData / itineraryData / data arguments: an object, an array with a
\* string that needs an escape, and an object that is not JSON-representable
\* (JSON.stringify drops its undefined property)
Payloads ==
    { Obj(<< << << "v" >>, Num(1) >> >>),
      Arr(<< Str(<< "a", "\"", "b" >>), Bool(TRUE), JsNull, Num(20) >>),
      Obj(<< << << "v" >>, Num(2) >>, << << "w" >>, Undefined >> >>) }
\* a key of the generic cache(key, ...) operations
GenericKeys == { << "s", "e", "s", "s", "i", "o", "n", ":", "1" >> }

\* pend.phase: "idle" (none made), "keys" (between KEYS and DEL), "done".
\* keys: what KEYS returned; raced: a set operation ran between KEYS and
\* DEL; ok: every command of the invalidation was carried out.
\* n: the number of invalidations begun; wrote: the keys that a set
\* operation wrote between KEYS and DEL.
NoPend == [phase |-> "idle", scope |-> "none", user |-> << >>, keys |-> {},
           raced |-> FALSE, ok |-> FALSE, n |-> 0, wrote |-> {}]

hvars == << store, created, reqs, ops, ver, asOf, invalDone, retry >>

\* a call that is over after one await; `wrote` is the key of a set (as a
\* set of keys), empty for the other operations
Direct(out, wrote) ==
    /\ calls < MaxCalls
    /\ calls' = calls + 1
    /\ cache' = out.cache
    /\ pend' = IF pend.phase = "keys" /\ wrote # {}
               THEN [pend EXCEPT !.raced = TRUE,
                                 !.wrote = IF out.contacted /\ ~out.failed
                                           THEN @ \cup wrote ELSE @]
               ELSE pend
    /\ UNCHANGED << redisClient, service, conn, hvars >>

\* a pattern invalidation up to the await of KEYS
DirectKeys(scope, arg, out) ==
    /\ calls < MaxCalls
    /\ pend.phase # "keys"
    /\ calls' = calls + 1
    /\ cache' = out.cache
    /\ pend' = [phase |-> IF out.more THEN "keys" ELSE "done", scope |-> scope,
                user |-> arg, keys |-> out.keys, raced |-> FALSE,
                ok |-> out.contacted /\ ~out.failed, n |-> pend.n + 1,
                wrote |-> {}]
    /\ UNCHANGED << redisClient, service, conn, hvars >>

\* connectRedis is called once, at startup
CallConnectRedis ==
    /\ conn = "none"
    /\ \E how \in ConnectResults :
        LET r == connectRedis(how)
        IN  /\ redisClient' = r.redisClient
            /\ service' = r.service
            /\ conn' = r.ret
    /\ UNCHANGED << cache, pend, calls, hvars >>

CallCloseRedis ==
    /\ calls < MaxCalls
    /\ calls' = calls + 1
    /\ service' = closeRedis.service
    /\ UNCHANGED << redisClient, conn, cache, pend, hvars >>

CallCacheUser ==
    \E u \in Users, d \in Payloads : Direct(cacheUser(u, d), {UserKey(u)})
CallGetCachedUser ==
    \E u \in Users : Direct(getCachedUser(u), {})
CallInvalidateUserCache ==
    \E u \in Users : Direct(invalidateUserCache(u), {})

CallCacheItinerary ==
    \E i \in ItinIds, d \in Payloads : Direct(cacheItinerary(i, d), {ItineraryKey(i)})
CallGetCachedItinerary ==
    \E i \in ItinIds : Direct(getCachedItinerary(i), {})
CallInvalidateItineraryCache ==
    \E i \in ItinIds : Direct(invalidateItineraryCache(i), {})

CallCacheItineraryList ==
    \E u \in Users, f \in ListFilters, d \in Payloads :
        Direct(cacheItineraryList(u, f, d), {ListKeyOf(u, f)})
CallGetCachedItineraryList ==
    \E u \in Users, f \in ListFilters : Direct(getCachedItineraryList(u, f), {})
CallInvalidateUserItineraryCaches ==
    \E u \in Users : DirectKeys("user", u, invalidateUserItineraryCachesKeys(u))

CallCachePublicItineraries ==
    \E f \in PublicFilters, d \in Payloads : Direct(cachePublicItineraries(f, d), {PublicKeyOf(f)})
CallGetCachedPublicItineraries ==
    \E f \in PublicFilters : Direct(getCachedPublicItineraries(f), {})
CallInvalidatePublicItineraryCaches ==
    DirectKeys("public", << >>, invalidatePublicItineraryCachesKeys)

\* the second await of a pattern invalidation: DEL of the keys KEYS returned
ReturnInvalidate ==
    /\ pend.phase = "keys"
    /\ LET out == IF pend.scope = "user"
                  THEN invalidateUserItineraryCachesDel(pend.keys)
                  ELSE invalidatePublicItineraryCachesDel(pend.keys)
       IN  /\ cache' = out.cache
           /\ pend' = [pend EXCEPT !.phase = "done", !.ok = ~out.failed]
    /\ UNCHANGED << redisClient, service, conn, calls, hvars >>

CallCache ==
    \E k \in GenericKeys, d \in Payloads : Direct(cacheData(k, d, DefaultTTL), {k})
CallGetCache ==
    \E k \in GenericKeys : Direct(getCache(k), {})
CallDeleteCache ==
    \E k \in GenericKeys : Direct(deleteCache(k), {})

\* the service starts to reject commands (connection lost), or recovers
ServiceFail ==
    /\ redisClient = "client"
    /\ service = "up"
    /\ service' = "down"
    /\ UNCHANGED << redisClient, conn, cache, pend, calls, hvars >>
ServiceRecover ==
    /\ redisClient = "client"
    /\ service = "down"
    /\ service' = "up"
    /\ UNCHANGED << redisClient, conn, cache, pend, calls, hvars >>

vars == << redisClient, service, conn, cache, pend, calls, store, created, reqs,
          ops, ver, asOf, invalDone, retry >>

EmptyCache == [k \in {} |-> Null]

\* redis.js as loaded: `let redisClient = null`
InitCache ==
    /\ redisClient = "null"
    /\ service = "up"
    /\ conn = "none"
    /\ cache = EmptyCache
    /\ pend = NoPend
    /\ calls = 0
    /\ store = EmptyCache
    /\ created = 0
    /\ reqs = << >>
    /\ ops = 0
    /\ ver = 0
    /\ asOf = << >>
    /\ invalDone = << >>
    /\ retry = NoRetry

NextCache ==
    \/ CallConnectRedis
    \/ CallCloseRedis
    \/ CallCacheUser
    \/ CallGetCachedUser
    \/ CallInvalidateUserCache
    \/ CallCacheItinerary
    \/ CallGetCachedItinerary
    \/ CallInvalidateItineraryCache
    \/ CallCacheItineraryList
    \/ CallGetCachedItineraryList
    \/ CallInvalidateUserItineraryCaches
    \/ CallCachePublicItineraries
    \/ CallGetCachedPublicItineraries
    \/ CallInvalidatePublicItineraryCaches
    \/ ReturnInvalidate
    \/ CallCache
    \/ CallGetCache
    \/ CallDeleteCache
    \/ ServiceFail
    \/ ServiceRecover

SpecCache == InitCache /\ [][NextCache]_vars

(***************************************************************************)
(* The persistent store: src/models/Itinerary.js and the Mongoose queries  *)
(* of the handlers. A document is [_id, userId, title, destination,        *)
(* createdAt]; createdAt is the creation rank.                             *)
(***************************************************************************)
Titles == { << "T", "r", "i", "p" >>, << "T", "o", "u", "r" >> }
Destinations == { << "R", "o", "m", "e" >>, << "P", "a", "r", "i", "s" >> }
\* a field a request body does not carry
Absent == << >>

\* req.body of POST /api/itineraries: the validator requires title and
\* destination; a userId in the body is not rejected
CreateBodies ==
    { [title |-> << "T", "r", "i", "p" >>, destination |-> << "R", "o", "m", "e" >>, userId |-> Absent],
      [title |-> << "T", "o", "u", "r" >>, destination |-> << "P", "a", "r", "i", "s" >>, userId |-> UserPool[2]] }
\* req.body of PUT /api/itineraries/:id: any subset of the fields
UpdateBodies ==
    { [title |-> << "T", "o", "u", "r" >>, destination |-> Absent, userId |-> Absent],
      [title |-> << "T", "r", "i", "p" >>, destination |-> Absent, userId |-> Absent],
      [title |-> Absent, destination |-> Absent, userId |-> UserPool[2]] }

NoDoc == [_id |-> Absent, userId |-> Absent, title |-> Absent,
          destination |-> Absent, createdAt |-> 0]

\* String.prototype.toLowerCase on one character
Lower(c) ==
    LET n == Ord(c)
    IN  IF n >= 65 /\ n <= 90 THEN Ascii[n + 32 - 31] ELSE c
LowerSeq(s) == [i \in 1..Len(s) |-> Lower(s[i])]

\* new RegExp(pattern, 'i').test(text) for a pattern of literal characters:
\* the pattern occurs somewhere in the text, whatever the case
RegExpTestI(pattern, text) ==
    \E k \in 0..(Len(text) - Len(pattern)) :
        LowerSeq(SubSeq(text, k + 1, k + Len(pattern))) = LowerSeq(pattern)

\* { $text: { $search } } over the text index of title and destination,
\* for one-word fields and a one-word search: a case-insensitive word match
TextSearch(search, doc) ==
    \/ LowerSeq(doc.title) = LowerSeq(search)
    \/ LowerSeq(doc.destination) = LowerSeq(search)

\* `if (destination)`: undefined and '' are falsy
Truthy(v) == v.t # "undefined" /\ ~(v.t = "string" /\ v.s = << >>)

\* the filters object of getItineraries (owner = the user) and of
\* getPublicItineraries (owner = Absent: no userId filter)
Matches(doc, owner, q) ==
    /\ owner = Absent \/ doc.userId = owner
    /\ Truthy(q.destination) => RegExpTestI(q.destination.s, doc.destination)
    /\ Truthy(q.search) => TextSearch(q.search.s, doc)

\* the documents of the collection in natural (creation) order
RECURSIVE Natural(_, _)
Natural(st, n) ==
    IF n = 0 THEN << >>
    ELSE Natural(st, n - 1)
         \o (IF ItinPool[n] \in DOMAIN st THEN << st[ItinPool[n]] >> ELSE << >>)

Filter(docs, owner, q) == SelectSeq(docs, LAMBDA d : Matches(d, owner, q))

\* lexicographic order of two strings by character code
RECURSIVE StrLess(_, _)
StrLess(a, b) ==
    IF Len(b) = 0 THEN FALSE
    ELSE IF Len(a) = 0 THEN TRUE
    ELSE IF a[1] = b[1] THEN StrLess(Tail(a), Tail(b))
    ELSE Ord(a[1]) < Ord(b[1])

\* sortObj: '-field' sorts descending, 'field' ascending
SortField(sort) == IF sort[1] = "-" THEN Tail(sort) ELSE sort
SortDescending(sort) == sort[1] = "-"
\* whether document a comes strictly before b in ascending order of field;
\* documents carry no startDate here, so that field orders nothing
FieldLess(a, b, field) ==
    IF field = << "c", "r", "e", "a", "t", "e", "d", "A", "t" >> THEN a.createdAt < b.createdAt
    ELSE IF field = << "t", "i", "t", "l", "e" >> THEN StrLess(a.title, b.title)
    ELSE FALSE
Before(a, b, sort) ==
    IF SortDescending(sort) THEN FieldLess(b, a, SortField(sort))
    ELSE FieldLess(a, b, SortField(sort))

\* .sort(sortObj): a stable insertion sort of the matching documents
RECURSIVE Insert(_, _, _)
Insert(sorted, d, sort) ==
    IF Len(sorted) = 0 THEN << d >>
    ELSE IF Before(d, sorted[1], sort) THEN << d >> \o sorted
    ELSE << sorted[1] >> \o Insert(Tail(sorted), d, sort)
RECURSIVE SortDocs(_, _)
SortDocs(docs, sort) ==
    IF Len(docs) = 0 THEN << >>
    ELSE Insert(SortDocs(SubSeq(docs, 1, Len(docs) - 1), sort), docs[Len(docs)], sort)

Min(a, b) == IF a < b THEN a ELSE b

\* .populate('userId', 'name email') / .populate('userId', 'name'): the
\* owner's id is replaced by the selected fields of the user document
Populate(doc, fields) == [doc EXCEPT !.userId = [_id |-> doc.userId, select |-> fields]]

\* a find that skips page * limit documents
FindSkipsPage(st, owner, q, fields) ==
    LET page == parseInt(OrDefault(q.page, Num(DefaultPage)))
        limit == parseInt(OrDefault(q.limit, Num(DefaultLimit)))
        sort == OrDefault(q.sort, Str(DefaultSort)).s
        skip == page * limit
        sorted == SortDocs(Filter(Natural(st, MaxItins), owner, q), sort)
        window == SubSeq(sorted, skip + 1, Min(skip + limit, Len(sorted)))
    IN  [i \in 1..Len(window) |-> Populate(window[i], fields)]

\* Itinerary.find(filters).populate(...).sort(sortObj).skip(skip).limit(limit).lean()
Find(st, owner, q, fields) ==
    LET page == parseInt(OrDefault(q.page, Num(DefaultPage)))
        limit == parseInt(OrDefault(q.limit, Num(DefaultLimit)))
        sort == OrDefault(q.sort, Str(DefaultSort)).s
        skip == (page - 1) * limit
        sorted == SortDocs(Filter(Natural(st, MaxItins), owner, q), sort)
        window == SubSeq(sorted, skip + 1, Min(skip + limit, Len(sorted)))
    IN  [i \in 1..Len(window) |-> Populate(window[i], fields)]

\* Itinerary.countDocuments(filters)
CountDocuments(st, owner, q) == Len(Filter(Natural(st, MaxItins), owner, q))

\* the result object: { itineraries, pagination: { current, pages, total } }
Envelope(items, total, q) ==
    LET limit == parseInt(OrDefault(q.limit, Num(DefaultLimit)))
    IN  [itineraries |-> items,
         pagination |-> [current |-> parseInt(OrDefault(q.page, Num(DefaultPage))),
                         pages |-> (total + limit - 1) \div limit,
                         total |-> total]]
NoEnvelope == Envelope(<< >>, 0, NoQuery)

\* Itinerary.create(body): the new document
NewDoc(n, body) ==
    [_id |-> ItinPool[n], userId |-> body.userId, title |-> body.title,
     destination |-> body.destination, createdAt |-> n]
\* Itinerary.findByIdAndUpdate(id, body, { new: true }): the fields of the
\* body are set, the others kept
UpdatedDoc(doc, body) ==
    [doc EXCEPT !.title = IF body.title = Absent THEN @ ELSE body.title,
                !.destination = IF body.destination = Absent THEN @ ELSE body.destination,
                !.userId = IF body.userId = Absent THEN @ ELSE body.userId]


\* ---- documents and envelopes as JavaScript values ----------------------
kId == << "_", "i", "d" >>
kUserId == << "u", "s", "e", "r", "I", "d" >>
kName == << "n", "a", "m", "e" >>
kEmail == << "e", "m", "a", "i", "l" >>
kTitle == << "t", "i", "t", "l", "e" >>
kCreatedAt == << "c", "r", "e", "a", "t", "e", "d", "A", "t" >>
kItineraries == << "i", "t", "i", "n", "e", "r", "a", "r", "i", "e", "s" >>
kPagination == << "p", "a", "g", "i", "n", "a", "t", "i", "o", "n" >>
kCurrent == << "c", "u", "r", "r", "e", "n", "t" >>
kPages == << "p", "a", "g", "e", "s" >>
kTotal == << "t", "o", "t", "a", "l" >>

\* the users collection: name and email of the user with an id
UserName(id) == << "U" >> \o id
UserEmail(id) == id \o << "@", "x" >>

\* obj[name] of an object value
Field(v, name) ==
    LET i == CHOOSE i \in 1..Len(v.s) : v.s[i][1] = name
    IN  v.s[i][2]
Has(v, name) == \E i \in 1..Len(v.s) : v.s[i][1] = name

\* the populated userId of a document: the selected fields of the user
UserToJs(u) ==
    Obj(<< << kId, Str(u._id) >>, << kName, Str(UserName(u._id)) >> >>
        \o (IF u.select = "name email" THEN << << kEmail, Str(UserEmail(u._id)) >> >>
            ELSE << >>))
JsToUser(v) ==
    [_id |-> Field(v, kId).s, select |-> IF Has(v, kEmail) THEN "name email" ELSE "name"]

\* a populated itinerary document as the object JSON.stringify prints
DocToJs(doc) ==
    Obj(<< << kId, Str(doc._id) >>, << kUserId, UserToJs(doc.userId) >>,
           << kTitle, Str(doc.title) >>, << kDestination, Str(doc.destination) >>,
           << kCreatedAt, Num(doc.createdAt) >> >>)
JsToDoc(v) ==
    [_id |-> Field(v, kId).s, userId |-> JsToUser(Field(v, kUserId)),
     title |-> Field(v, kTitle).s, destination |-> Field(v, kDestination).s,
     createdAt |-> Field(v, kCreatedAt).n]

\* result = { itineraries, pagination: { current, pages, total } }
EnvelopeToJs(e) ==
    Obj(<< << kItineraries, Arr([i \in 1..Len(e.itineraries) |-> DocToJs(e.itineraries[i])]) >>,
           << kPagination, Obj(<< << kCurrent, Num(e.pagination.current) >>,
                                  << kPages, Num(e.pagination.pages) >>,
                                  << kTotal, Num(e.pagination.total) >> >>) >> >>)
\* the body of res.json({ success: true, ...cachedData })
JsToEnvelope(v) ==
    LET items == Field(v, kItineraries).s
        p == Field(v, kPagination)
    IN  [itineraries |-> [i \in 1..Len(items) |-> JsToDoc(items[i])],
         pagination |-> [current |-> Field(p, kCurrent).n, pages |-> Field(p, kPages).n,
                         total |-> Field(p, kTotal).n]]

\* `if (cachedData)`: what a get returned is neither null, 0, "" nor false
JsTruthy(ret) ==
    /\ ~ret.nil
    /\ ~(ret.val.t = "number" /\ ret.val.n = 0)
    /\ ~(ret.val.t = "string" /\ ret.val.s = << >>)
    /\ ~(ret.val.t = "boolean" /\ ret.val.n = 0)

(***************************************************************************)
(* src/controllers/itineraryController.js: the handlers. A request holds   *)
(* its inputs, its position (pc: the await it is suspended at), its locals *)
(* and, once pc = "done", its response.                                    *)
(***************************************************************************)
Slots == 1..MaxReq

NoBody == [title |-> Absent, destination |-> Absent, userId |-> Absent]

\* floor, purged, readVer, wver and dropped are history fields: the
\* requester's invalDone when the request started, the store version a list
\* was read at, the store version the request's own mutation produced, and
\* whether its invalidateItineraryCache deleted an entry; shared: whether
\* the request before a getSharedItinerary was a shareItinerary of the same
\* itinerary that was answered 200
IdleReq ==
    [kind |-> "none", pc |-> "idle", user |-> Absent, q |-> NoQuery,
     id |-> Absent, body |-> NoBody,
     items |-> << >>, total |-> 0, doc |-> NoDoc, keys |-> {},
     status |-> 0, list |-> NoEnvelope, itinerary |-> NoDoc, hit |-> FALSE,
     floor |-> 0, purged |-> FALSE, readVer |-> 0, wver |-> 0, dropped |-> FALSE,
     shared |-> FALSE]

ListKinds == {"getItineraries", "getPublicItineraries"}
WriteKinds == {"createItinerary", "updateItinerary", "deleteItinerary"}

Free(s) == reqs[s].pc \in {"idle", "done"}

cvars == << redisClient, service, conn, pend, calls, retry >>

\* res.status(status).json(...): the locals are dropped with the request
Responded(r, status) ==
    [r EXCEPT !.pc = "done", !.status = status,
              !.items = << >>, !.total = 0, !.doc = NoDoc, !.keys = {}]

\* next(error): the error middleware answers 500
Failed(r) == Responded(r, 500)

AllListKeys == UNION { UserListKeys(u) : u \in Users } \cup PublicListKeys
\* the history of the entries that are gone is dropped
AsOfFor(c, a) == [k \in AllListKeys |-> IF k \in DOMAIN c THEN a[k] ELSE 0]

Max(a, b) == IF a > b THEN a ELSE b

\* history of a user's writes that returned success: the newest store
\* version among them, and whether the last of them deleted list entries
NoWrite == [ver |-> 0, purged |-> FALSE]
Returned(h, wver, purged) == [ver |-> Max(h.ver, wver), purged |-> purged]

\* ---- a request arrives -------------------------------------------------
StartGetItineraries(s, u, q) ==
    /\ Free(s)
    /\ reqs' = [reqs EXCEPT ![s] =
                 [IdleReq EXCEPT !.kind = "getItineraries", !.pc = "checkCache",
                                 !.user = u, !.q = q, !.floor = invalDone[u].ver,
                                 !.purged = invalDone[u].purged]]
    /\ ops' = ops + 1
    /\ UNCHANGED << cvars, cache, store, created, ver, asOf, invalDone >>

StartGetPublicItineraries(s, q) ==
    /\ Free(s)
    /\ reqs' = [reqs EXCEPT ![s] =
                 [IdleReq EXCEPT !.kind = "getPublicItineraries",
                                 !.pc = "checkCache", !.q = q]]
    /\ ops' = ops + 1
    /\ UNCHANGED << cvars, cache, store, created, ver, asOf, invalDone >>

StartGetItinerary(s, u, i) ==
    /\ Free(s)
    /\ reqs' = [reqs EXCEPT ![s] =
                 [IdleReq EXCEPT !.kind = "getItinerary", !.pc = "findById",
                                 !.user = u, !.id = i]]
    /\ ops' = ops + 1
    /\ UNCHANGED << cvars, cache, store, created, ver, asOf, invalDone >>

\* `req.body.userId = req.user._id` runs before the first await
\* a create that keeps the userId of the body: no `req.body.userId = req.user._id`
StartCreateItineraryKeepsBody(s, u, b) ==
    /\ Free(s)
    /\ created < MaxItins
    /\ reqs' = [reqs EXCEPT ![s] =
                 [IdleReq EXCEPT !.kind = "createItinerary", !.pc = "create",
                                 !.user = u, !.body = b]]
    /\ ops' = ops + 1
    /\ UNCHANGED << cvars, cache, store, created, ver, asOf, invalDone >>

StartCreateItinerary(s, u, b) ==
    /\ Free(s)
    /\ created < MaxItins
    /\ reqs' = [reqs EXCEPT ![s] =
                 [IdleReq EXCEPT !.kind = "createItinerary", !.pc = "create",
                                 !.user = u, !.body = [b EXCEPT !.userId = u]]]
    /\ ops' = ops + 1
    /\ UNCHANGED << cvars, cache, store, created, ver, asOf, invalDone >>

StartUpdateItinerary(s, u, i, b) ==
    /\ Free(s)
    /\ reqs' = [reqs EXCEPT ![s] =
                 [IdleReq EXCEPT !.kind = "updateItinerary", !.pc = "findById",
                                 !.user = u, !.id = i, !.body = b]]
    /\ ops' = ops + 1
    /\ UNCHANGED << cvars, cache, store, created, ver, asOf, invalDone >>

StartDeleteItinerary(s, u, i) ==
    /\ Free(s)
    /\ reqs' = [reqs EXCEPT ![s] =
                 [IdleReq EXCEPT !.kind = "deleteItinerary", !.pc = "findById",
                                 !.user = u, !.id = i]]
    /\ ops' = ops + 1
    /\ UNCHANGED << cvars, cache, store, created, ver, asOf, invalDone >>

\* ---- getItineraries and getPublicItineraries ---------------------------
ListOwner(r) == IF r.kind = "getItineraries" THEN r.user ELSE Absent
ListSelect(r) == IF r.kind = "getItineraries" THEN "name email" ELSE "name"
ListKey(r) == IF r.kind = "getItineraries" THEN ListKeyOf(r.user, ListCacheKey(r.q))
              ELSE PublicKeyOf(PublicCacheKey(r.q))

\* const cachedData = await getCachedItineraryList(...) / getCachedPublicItineraries(...);
\* if (cachedData) return res.json({ success: true, ...cachedData })
ListCheckCache(s) ==
    LET r == reqs[s]
        out == IF r.kind = "getItineraries"
               THEN getCachedItineraryList(r.user, ListCacheKey(r.q))
               ELSE getCachedPublicItineraries(PublicCacheKey(r.q))
    IN  /\ r.kind \in ListKinds
        /\ r.pc = "checkCache"
        /\ cache' = out.cache
        /\ reqs' = [reqs EXCEPT ![s] =
                     IF out.threw THEN Failed(r)
                     ELSE IF JsTruthy(out.ret)
                     THEN [Responded(r, 200) EXCEPT !.list = JsToEnvelope(out.ret.val),
                                                    !.hit = TRUE,
                                                    !.readVer = asOf[ListKey(r)]]
                     ELSE [r EXCEPT !.pc = "find"]]
        /\ UNCHANGED << cvars, store, created, ops, ver, asOf, invalDone >>

\* const itineraries = await Itinerary.find(filters)...lean()
ListFind(s) ==
    LET r == reqs[s]
    IN  /\ r.kind \in ListKinds
        /\ r.pc = "find"
        /\ reqs' = [reqs EXCEPT ![s] =
                     [r EXCEPT !.pc = "count",
                               !.items = Find(store, ListOwner(r), r.q, ListSelect(r)),
                               !.readVer = ver]]
        /\ UNCHANGED << cvars, cache, store, created, ops, ver, asOf, invalDone >>

\* const total = await Itinerary.countDocuments(filters)
ListCount(s) ==
    LET r == reqs[s]
    IN  /\ r.kind \in ListKinds
        /\ r.pc = "count"
        /\ reqs' = [reqs EXCEPT ![s] =
                     [r EXCEPT !.pc = "cacheList",
                               !.total = CountDocuments(store, ListOwner(r), r.q)]]
        /\ UNCHANGED << cvars, cache, store, created, ops, ver, asOf, invalDone >>

\* await cacheItineraryList(...) / cachePublicItineraries(...); res.json(result)
ListPopulate(s) ==
    LET r == reqs[s]
        result == Envelope(r.items, r.total, r.q)
        out == IF r.kind = "getItineraries"
               THEN cacheItineraryList(r.user, ListCacheKey(r.q), EnvelopeToJs(result))
               ELSE cachePublicItineraries(PublicCacheKey(r.q), EnvelopeToJs(result))
        stored == out.contacted /\ ~out.failed /\ ~out.threw
    IN  /\ r.kind \in ListKinds
        /\ r.pc = "cacheList"
        /\ cache' = out.cache
        /\ asOf' = IF stored THEN AsOfFor(out.cache, [asOf EXCEPT ![ListKey(r)] = r.readVer])
                   ELSE asOf
        /\ reqs' = [reqs EXCEPT ![s] =
                     IF out.threw THEN Failed(r)
                     ELSE [Responded(r, 200) EXCEPT !.list = result]]
        /\ UNCHANGED << cvars, store, created, ops, ver, invalDone >>

\* ---- getItinerary ------------------------------------------------------
\* a getItinerary without the ownership check
GetItineraryFindNoOwnerCheck(s) ==
    LET r == reqs[s]
    IN  /\ r.kind = "getItinerary"
        /\ r.pc = "findById"
        /\ reqs' = [reqs EXCEPT ![s] =
                     IF r.id \notin DOMAIN store THEN Responded(r, 404)
                     ELSE [r EXCEPT !.pc = "cacheItinerary",
                                    !.doc = Populate(store[r.id], "name email")]]
        /\ UNCHANGED << cvars, cache, store, created, ops, ver, asOf, invalDone >>

\* await Itinerary.findById(id).populate(...); 404 when there is none, 403
\* when the requester is not the owner
GetItineraryFind(s) ==
    LET r == reqs[s]
    IN  /\ r.kind = "getItinerary"
        /\ r.pc = "findById"
        /\ reqs' = [reqs EXCEPT ![s] =
                     IF r.id \notin DOMAIN store THEN Responded(r, 404)
                     ELSE IF store[r.id].userId # r.user THEN Responded(r, 403)
                     ELSE [r EXCEPT !.pc = "cacheItinerary",
                                    !.doc = Populate(store[r.id], "name email")]]
        /\ UNCHANGED << cvars, cache, store, created, ops, ver, asOf, invalDone >>

\* await cacheItinerary(itinerary._id.toString(), itinerary); res.json
GetItineraryCache(s) ==
    LET r == reqs[s]
        out == cacheItinerary(r.id, DocToJs(r.doc))
    IN  /\ r.kind = "getItinerary"
        /\ r.pc = "cacheItinerary"
        /\ cache' = out.cache
        /\ reqs' = [reqs EXCEPT ![s] =
                     IF out.threw THEN Failed(r)
                     ELSE [Responded(r, 200) EXCEPT !.itinerary = r.doc]]
        /\ UNCHANGED << cvars, store, created, ops, ver, asOf, invalDone >>

\* ---- createItinerary ---------------------------------------------------
\* await Itinerary.create(req.body); await itinerary.populate(...)
\* a create that responds 201 without awaiting the invalidation
CreateItineraryCreateRespondsFirst(s) ==
    LET r == reqs[s]
        doc == NewDoc(created + 1, r.body)
    IN  /\ r.kind = "createItinerary"
        /\ r.pc = "create"
        /\ created < MaxItins
        /\ store' = [i \in DOMAIN store \cup {doc._id} |->
                        IF i = doc._id THEN doc ELSE store[i]]
        /\ created' = created + 1
        /\ ver' = ver + 1
        /\ reqs' = [reqs EXCEPT ![s] =
                     [Responded([r EXCEPT !.id = doc._id, !.wver = ver + 1], 201)
                        EXCEPT !.itinerary = Populate(doc, "name email")]]
        /\ UNCHANGED << cvars, cache, ops, asOf, invalDone >>
CreateItineraryCreate(s) ==
    LET r == reqs[s]
        doc == NewDoc(created + 1, r.body)
    IN  /\ r.kind = "createItinerary"
        /\ r.pc = "create"
        /\ created < MaxItins
        /\ store' = [i \in DOMAIN store \cup {doc._id} |->
                        IF i = doc._id THEN doc ELSE store[i]]
        /\ created' = created + 1
        /\ ver' = ver + 1
        /\ reqs' = [reqs EXCEPT ![s] =
                     [r EXCEPT !.pc = "invalidateLists", !.id = doc._id,
                               !.doc = Populate(doc, "name email"),
                               !.wver = ver + 1]]
        /\ UNCHANGED << cvars, cache, ops, asOf, invalDone >>

\* ---- updateItinerary and deleteItinerary -------------------------------
\* let itinerary = await Itinerary.findById(id); 404; 403
\* the lookup of a write without the ownership check
WriteFindNoOwnerCheck(s) ==
    LET r == reqs[s]
    IN  /\ r.kind \in {"updateItinerary", "deleteItinerary"}
        /\ r.pc = "findById"
        /\ reqs' = [reqs EXCEPT ![s] =
                     IF r.id \notin DOMAIN store THEN Responded(r, 404)
                     ELSE [r EXCEPT !.pc = "mutate"]]
        /\ UNCHANGED << cvars, cache, store, created, ops, ver, asOf, invalDone >>
WriteFind(s) ==
    LET r == reqs[s]
    IN  /\ r.kind \in {"updateItinerary", "deleteItinerary"}
        /\ r.pc = "findById"
        /\ reqs' = [reqs EXCEPT ![s] =
                     IF r.id \notin DOMAIN store THEN Responded(r, 404)
                     ELSE IF store[r.id].userId # r.user THEN Responded(r, 403)
                     ELSE [r EXCEPT !.pc = "mutate"]]
        /\ UNCHANGED << cvars, cache, store, created, ops, ver, asOf, invalDone >>

\* itinerary = await Itinerary.findByIdAndUpdate(id, req.body, { new: true })
\* .populate(...): null when the document is gone, and then
\* `itinerary._id` at the next line throws a TypeError
UpdateItineraryUpdate(s) ==
    LET r == reqs[s]
    IN  /\ r.kind = "updateItinerary"
        /\ r.pc = "mutate"
        /\ IF r.id \in DOMAIN store
           THEN LET doc == UpdatedDoc(store[r.id], r.body)
                IN  /\ store' = [store EXCEPT ![r.id] = doc]
                    /\ ver' = ver + 1
                    /\ reqs' = [reqs EXCEPT ![s] =
                                 [r EXCEPT !.pc = "invalidateItinerary",
                                           !.doc = Populate(doc, "name email"),
                                           !.wver = ver + 1]]
           ELSE /\ reqs' = [reqs EXCEPT ![s] = Failed(r)]
                /\ UNCHANGED << store, ver >>
        /\ UNCHANGED << cvars, cache, created, ops, asOf, invalDone >>

\* a delete handler that leaves the document in the collection
DeleteItineraryDeleteKeepsDoc(s) ==
    LET r == reqs[s]
    IN  /\ r.kind = "deleteItinerary"
        /\ r.pc = "mutate"
        /\ reqs' = [reqs EXCEPT ![s] = [r EXCEPT !.pc = "invalidateItinerary", !.wver = ver]]
        /\ UNCHANGED << cvars, cache, store, ver, created, ops, asOf, invalDone >>

\* await Itinerary.findByIdAndDelete(id)
DeleteItineraryDelete(s) ==
    LET r == reqs[s]
    IN  /\ r.kind = "deleteItinerary"
        /\ r.pc = "mutate"
        /\ store' = [i \in DOMAIN store \ {r.id} |-> store[i]]
        /\ ver' = IF r.id \in DOMAIN store THEN ver + 1 ELSE ver
        /\ reqs' = [reqs EXCEPT ![s] =
                     [r EXCEPT !.pc = "invalidateItinerary",
                               !.wver = IF r.id \in DOMAIN store THEN ver + 1 ELSE ver]]
        /\ UNCHANGED << cvars, cache, created, ops, asOf, invalDone >>

\* await invalidateItineraryCache(itinerary._id.toString())
InvalidateItinerary(s) ==
    LET r == reqs[s]
        out == invalidateItineraryCache(r.id)
    IN  /\ r.kind \in {"updateItinerary", "deleteItinerary"}
        /\ r.pc = "invalidateItinerary"
        /\ cache' = out.cache
        /\ reqs' = [reqs EXCEPT ![s] =
                     IF out.threw THEN Failed(r)
                     ELSE [r EXCEPT !.pc = "invalidateLists",
                                    !.dropped = /\ ItineraryKey(r.id) \in DOMAIN cache
                                                /\ out.contacted /\ ~out.failed]]
        /\ UNCHANGED << cvars, store, created, ops, ver, asOf, invalDone >>

\* the success response of a write: 201 with the itinerary, 200 with the
\* itinerary, 200 with a message
Success(r) ==
    IF r.kind = "createItinerary" THEN [Responded(r, 201) EXCEPT !.itinerary = r.doc]
    ELSE IF r.kind = "updateItinerary" THEN [Responded(r, 200) EXCEPT !.itinerary = r.doc]
    ELSE Responded(r, 200)

\* await invalidateUserItineraryCaches(req.user._id), up to its KEYS: with
\* no key (or no client, or an error) it returns and the response is sent
InvalidateListsKeys(s) ==
    LET r == reqs[s]
        out == invalidateUserItineraryCachesKeys(r.user)
    IN  /\ r.kind \in WriteKinds
        /\ r.pc = "invalidateLists"
        /\ cache' = out.cache
        /\ IF out.threw
           THEN /\ reqs' = [reqs EXCEPT ![s] = Failed(r)]
                /\ UNCHANGED invalDone
           ELSE IF out.more
           THEN /\ reqs' = [reqs EXCEPT ![s] = [r EXCEPT !.pc = "deleteKeys",
                                                        !.keys = out.keys]]
                /\ UNCHANGED invalDone
           ELSE /\ reqs' = [reqs EXCEPT ![s] = Success(r)]
                /\ invalDone' = [invalDone EXCEPT ![r.user] = Returned(@, r.wver, FALSE)]
        /\ UNCHANGED << cvars, store, created, ops, ver, asOf >>

\* invalidateUserItineraryCaches from its DEL; then the response is sent
InvalidateListsDel(s) ==
    LET r == reqs[s]
        out == invalidateUserItineraryCachesDel(r.keys)
    IN  /\ r.kind \in WriteKinds
        /\ r.pc = "deleteKeys"
        /\ cache' = out.cache
        /\ asOf' = AsOfFor(out.cache, asOf)
        /\ IF out.threw
           THEN /\ reqs' = [reqs EXCEPT ![s] = Failed(r)]
                /\ UNCHANGED invalDone
           ELSE /\ reqs' = [reqs EXCEPT ![s] = Success(r)]
                /\ invalDone' = [invalDone EXCEPT ![r.user] =
                                   Returned(@, r.wver, out.contacted /\ ~out.failed)]
        /\ UNCHANGED << cvars, store, created, ops, ver >>

\* a step of the request in slot s
Step(s) ==
    \/ ListCheckCache(s)
    \/ ListFind(s)
    \/ ListCount(s)
    \/ ListPopulate(s)
    \/ GetItineraryFind(s)
    \/ GetItineraryCache(s)
    \/ CreateItineraryCreate(s)
    \/ WriteFind(s)
    \/ UpdateItineraryUpdate(s)
    \/ DeleteItineraryDelete(s)
    \/ InvalidateItinerary(s)
    \/ InvalidateListsKeys(s)
    \/ InvalidateListsDel(s)

\* the server after a successful connectRedis, with an empty collection
InitHandlers ==
    /\ redisClient = "client"
    /\ service = "up"
    /\ conn = "client"
    /\ cache = EmptyCache
    /\ pend = NoPend
    /\ calls = 0
    /\ store = EmptyCache
    /\ created = 0
    /\ reqs = [s \in Slots |-> IdleReq]
    /\ ops = 0
    /\ ver = 0
    /\ asOf = [k \in AllListKeys |-> 0]
    /\ invalDone = [u \in Users |-> NoWrite]
    /\ retry = NoRetry

\* ---- requests one at a time --------------------------------------------
SeqReady == ops < MaxSeqOps /\ \A s \in Slots : Free(s)

NextSeq ==
    \/ \E u \in Users, q \in Queries : SeqReady /\ StartGetItineraries(1, u, q)
    \/ \E q \in Queries : SeqReady /\ StartGetPublicItineraries(1, q)
    \/ \E u \in Users, i \in ItinIds : SeqReady /\ StartGetItinerary(1, u, i)
    \/ \E u \in Users, b \in CreateBodies : SeqReady /\ StartCreateItinerary(1, u, b)
    \/ \E u \in Users, i \in ItinIds, b \in UpdateBodies :
          SeqReady /\ StartUpdateItinerary(1, u, i, b)
    \/ \E u \in Users, i \in ItinIds : SeqReady /\ StartDeleteItinerary(1, u, i)
    \/ Step(1)

SpecSeq == InitHandlers /\ [][NextSeq]_vars

\* ---- requests in flight together ---------------------------------------
ConcReady == ops < MaxConcOps

NextConc ==
    \/ \E s \in Slots, u \in Users, q \in Queries :
          ConcReady /\ StartGetItineraries(s, u, q)
    \/ \E s \in Slots, q \in Queries : ConcReady /\ StartGetPublicItineraries(s, q)
    \/ \E s \in Slots, u \in Users, i \in ItinIds :
          ConcReady /\ StartGetItinerary(s, u, i)
    \/ \E s \in Slots, u \in Users, b \in CreateBodies :
          ConcReady /\ StartCreateItinerary(s, u, b)
    \/ \E s \in Slots, u \in Users, i \in ItinIds, b \in UpdateBodies :
          ConcReady /\ StartUpdateItinerary(s, u, i, b)
    \/ \E s \in Slots, u \in Users, i \in ItinIds :
          ConcReady /\ StartDeleteItinerary(s, u, i)
    \/ \E s \in Slots : Step(s)

SpecConc == InitHandlers /\ [][NextConc]_vars

\* ---- one user's create, read, update, read, delete ----------------------
\* the handle is there; the service carries every command out, or rejects
\* every command
InitCrud ==
    /\ redisClient = "client"
    /\ service \in {"up", "down"}
    /\ conn = "client"
    /\ cache = EmptyCache
    /\ pend = NoPend
    /\ calls = 0
    /\ store = EmptyCache
    /\ created = 0
    /\ reqs = [s \in Slots |-> IdleReq]
    /\ ops = 0
    /\ ver = 0
    /\ asOf = [k \in AllListKeys |-> 0]
    /\ invalDone = [u \in Users |-> NoWrite]
    /\ retry = NoRetry

\* the k-th request of the sequence is due; the requests after the create
\* are the creator's and name the itinerary that was created
Due(ks) == ops \in ks /\ \A s \in Slots : Free(s)

NextCrud ==
    \/ \E u \in Users, b \in CreateBodies : Due({0}) /\ StartCreateItinerary(1, u, b)
    \/ \E q \in Queries : Due({1, 3}) /\ StartGetItineraries(1, reqs[1].user, q)
    \/ Due({1, 3}) /\ StartGetItinerary(1, reqs[1].user, ItinPool[created])
    \/ \E b \in UpdateBodies :
          Due({2}) /\ StartUpdateItinerary(1, reqs[1].user, ItinPool[created], b)
    \/ Due({4}) /\ StartDeleteItinerary(1, reqs[1].user, ItinPool[created])
    \/ Step(1)

SpecCrud == InitCrud /\ [][NextCrud]_vars

\* ---- the answer of the persistent store --------------------------------
\* the response of a finished request is the one the store alone gives: a
\* read's from the store as it is, a write's from the store it left
AnsweredFromStore(r) ==
    IF r.kind = "getItineraries"
    THEN /\ r.status = 200
         /\ r.list = Envelope(Find(store, r.user, r.q, "name email"),
                              CountDocuments(store, r.user, r.q), r.q)
    ELSE IF r.kind = "getPublicItineraries"
    THEN /\ r.status = 200
         /\ r.list = Envelope(Find(store, Absent, r.q, "name"),
                              CountDocuments(store, Absent, r.q), r.q)
    ELSE IF r.kind = "getItinerary"
    THEN IF r.id \notin DOMAIN store THEN r.status = 404
         ELSE IF store[r.id].userId # r.user THEN r.status = 403
         ELSE /\ r.status = 200
              /\ r.itinerary = Populate(store[r.id], "name email")
    ELSE IF r.kind = "createItinerary"
    THEN /\ r.status = 201
         /\ r.id \in DOMAIN store
         /\ store[r.id].userId = r.user
         /\ r.itinerary = Populate(store[r.id], "name email")
    ELSE IF r.kind = "updateItinerary"
    THEN \/ r.status = 404 /\ r.id \notin DOMAIN store
         \/ r.status = 403 /\ r.id \in DOMAIN store /\ store[r.id].userId # r.user
         \/ /\ r.status = 200
            /\ r.id \in DOMAIN store
            /\ store[r.id] = UpdatedDoc(store[r.id], r.body)
            /\ r.itinerary = Populate(store[r.id], "name email")
    ELSE \/ r.status = 404 /\ r.id \notin DOMAIN store
         \/ r.status = 403 /\ r.id \in DOMAIN store /\ store[r.id].userId # r.user
         \/ r.status = 200 /\ r.id \notin DOMAIN store

(***************************************************************************)
(* Properties of the cache operations (specification SpecCache).           *)
(***************************************************************************)
\* the step that completes a direct invalidateUserItineraryCaches(u)
CompletesUserInvalidation(u) ==
    /\ pend'.n = pend.n + 1 \/ pend.phase = "keys"
    /\ pend'.phase = "done"
    /\ pend'.scope = "user"
    /\ pend'.user = u
\* a step of a direct invalidateUserItineraryCaches(u): its KEYS or its DEL
UserInvalidationStep(u) ==
    /\ pend'.scope = "user"
    /\ pend'.user = u
    /\ \/ pend'.n = pend.n + 1
       \/ pend.phase = "keys" /\ pend'.phase = "done"

\* C1: when invalidateUserItineraryCaches(U) completes, every command of it
\* carried out and no set operation between its KEYS and its DEL, no key
\* itineraries:U:<encodedFilters> is left, whatever filters were cached
C1_ScopeInvalidationComplete ==
    [][\A u \in Users :
        (CompletesUserInvalidation(u) /\ pend'.ok /\ ~pend'.raced)
            => UserListKeys(u) \cap DOMAIN cache' = {}]_vars

\* C1 witness: an invalidation that deleted two list entries of its user
C1_Witness ==
    /\ pend.phase = "done"
    /\ pend.scope = "user"
    /\ pend.ok
    /\ ~pend.raced
    /\ Cardinality(pend.keys) >= 2
    /\ pend.keys \subseteq UserListKeys(pend.user)
    /\ UserListKeys(pend.user) \cap DOMAIN cache = {}

\* C2: no step of invalidateUserItineraryCaches(U) changes an entry that is
\* not a list entry of U: the lists of the other users, the public lists,
\* user:<id>, itinerary:<id> and the generic keys keep their value and ttl
C2_ScopeInvalidationFrame ==
    [][\A u \in Users :
        UserInvalidationStep(u)
            => \A k \in DOMAIN cache \ UserListKeys(u) :
                   k \in DOMAIN cache' /\ cache'[k] = cache[k]]_vars

\* C2 witness: the invalidation of the first user deleted an entry and a
\* list entry of the user whose id extends the first user's id is still there
C2_Witness ==
    /\ pend.phase = "done"
    /\ pend.scope = "user"
    /\ pend.user = UserPool[1]
    /\ pend.ok
    /\ pend.keys # {}
    /\ UserListKeys(UserPool[2]) \cap DOMAIN cache # {}

\* an outcome that did nothing: null returned, nothing thrown, no command
\* issued, the keyspace as it was
NoOp(out) ==
    /\ out.ret = Null
    /\ ~out.threw
    /\ ~out.contacted
    /\ ~out.more
    /\ out.cache = cache

\* C7: while the handle is null every get returns null and every set,
\* delete and pattern delete returns without a command and without throwing
C7_DegradeToNoCache ==
    redisClient = "null" =>
        /\ \A u \in Users :
            /\ NoOp(getCachedUser(u))
            /\ NoOp(invalidateUserCache(u))
            /\ NoOp(invalidateUserItineraryCachesKeys(u))
            /\ \A d \in Payloads : NoOp(cacheUser(u, d))
            /\ \A f \in ListFilters :
                /\ NoOp(getCachedItineraryList(u, f))
                /\ \A d \in Payloads : NoOp(cacheItineraryList(u, f, d))
        /\ \A i \in ItinIds :
            /\ NoOp(getCachedItinerary(i))
            /\ NoOp(invalidateItineraryCache(i))
            /\ \A d \in Payloads : NoOp(cacheItinerary(i, d))
        /\ \A f \in PublicFilters :
            /\ NoOp(getCachedPublicItineraries(f))
            /\ \A d \in Payloads : NoOp(cachePublicItineraries(f, d))
        /\ NoOp(invalidatePublicItineraryCachesKeys)
        /\ \A k \in GenericKeys :
            /\ NoOp(getCache(k))
            /\ NoOp(deleteCache(k))
            /\ \A d \in Payloads : NoOp(cacheData(k, d, DefaultTTL))

\* C7 witness: operations have been called with the handle null, after a
\* connectRedis that left it null
C7_Witness ==
    /\ redisClient = "null"
    /\ conn = "null"
    /\ calls = MaxCalls

\* C8: with the service rejecting every command, every get returns null and
\* no exported operation, closeRedis included, throws to its caller
C8_FailSoft ==
    (redisClient = "client" /\ service = "down") =>
        /\ \A u \in Users :
            /\ getCachedUser(u).ret = Null /\ ~getCachedUser(u).threw
            /\ ~invalidateUserCache(u).threw
            /\ ~invalidateUserItineraryCachesKeys(u).threw
            /\ \A d \in Payloads : ~cacheUser(u, d).threw
            /\ \A f \in ListFilters :
                /\ getCachedItineraryList(u, f).ret = Null
                /\ ~getCachedItineraryList(u, f).threw
                /\ \A d \in Payloads : ~cacheItineraryList(u, f, d).threw
        /\ \A i \in ItinIds :
            /\ getCachedItinerary(i).ret = Null /\ ~getCachedItinerary(i).threw
            /\ ~invalidateItineraryCache(i).threw
            /\ \A d \in Payloads : ~cacheItinerary(i, d).threw
        /\ \A f \in PublicFilters :
            /\ getCachedPublicItineraries(f).ret = Null
            /\ ~getCachedPublicItineraries(f).threw
            /\ \A d \in Payloads : ~cachePublicItineraries(f, d).threw
        /\ ~invalidatePublicItineraryCachesKeys.threw
        /\ \A ks \in SUBSET DOMAIN cache :
            /\ ~invalidateUserItineraryCachesDel(ks).threw
            /\ ~invalidatePublicItineraryCachesDel(ks).threw
        /\ \A k \in GenericKeys :
            /\ getCache(k).ret = Null /\ ~getCache(k).threw
            /\ ~deleteCache(k).threw
            /\ \A d \in Payloads : ~cacheData(k, d, DefaultTTL).threw
        /\ ~closeRedis.threw

\* C8 without closeRedis: the part of the claim the code keeps
C8_FailSoftCacheOperations ==
    (redisClient = "client" /\ service = "down") =>
        /\ \A u \in Users :
            /\ getCachedUser(u).ret = Null /\ ~getCachedUser(u).threw
            /\ \A f \in ListFilters :
                /\ getCachedItineraryList(u, f).ret = Null
                /\ ~getCachedItineraryList(u, f).threw
        /\ \A k \in GenericKeys : getCache(k).ret = Null /\ ~getCache(k).threw

\* C9: after connectRedis has returned null the shared handle is null
C9_FailedConnectLeavesNoHandle ==
    conn = "null" => redisClient = "null"

(***************************************************************************)
(* Properties of the handlers.                                             *)
(***************************************************************************)
\* C3: requests one at a time, no cache operation failing (SpecSeq): a
\* getItineraries of user U that started after a write of U returned success
\* answers 200 with an envelope of the store at or after that write: served
\* from the cache only if the entry was computed from a store no older than
\* the write, and otherwise computed from the store as it is.
C3_ReadYourWrites ==
    \A s \in Slots :
        LET r == reqs[s]
        IN  (r.pc = "done" /\ r.kind = "getItineraries" /\ r.floor > 0) =>
                /\ r.status = 200
                /\ r.readVer >= r.floor
                /\ ~r.hit => AnsweredFromStore(r)

\* user U's list was cached, U's write returned success, and U's next list
\* request missed the cache and lists what the write left
C3_Witness ==
    /\ reqs[1].pc = "done"
    /\ reqs[1].kind = "getItineraries"
    /\ reqs[1].floor > 0
    /\ reqs[1].purged
    /\ ~reqs[1].hit
    /\ reqs[1].list.pagination.total > 0

\* C4: requests one at a time (SpecSeq): when createItinerary, updateItinerary
\* or deleteItinerary has returned success, no public_itineraries:* entry
\* is left in the cache.
C4_PublicScopeInvalidated ==
    \A s \in Slots :
        LET r == reqs[s]
        IN  (r.pc = "done" /\ r.kind \in WriteKinds /\ r.status \in {200, 201}) =>
                PublicListKeys \cap DOMAIN cache = {}

\* C5: requests one at a time, the cache healthy (SpecSeq): every response is
\* the response the persistent store alone gives.
C5_CacheIsPureOptimisation ==
    \A s \in Slots : reqs[s].pc = "done" => AnsweredFromStore(reqs[s])

\* C6: requests in flight together (SpecConc): a getItineraries of user U that
\* started after the invalidation of a write of U completed is not served
\* an entry computed from the store before that write.
C6_StalenessEndsWithInvalidation ==
    \A s \in Slots :
        LET r == reqs[s]
        IN  (r.pc = "done" /\ r.kind = "getItineraries" /\ r.hit) =>
                r.readVer >= r.floor

\* C10: one user's create, read, update, read, delete (SpecCrud): when the
\* service rejects every command, each response of the sequence is the
\* response the persistent store alone gives, and no read is served from
\* the cache.
C10_CrudWithoutCache ==
    service = "down" =>
        \A s \in Slots :
            reqs[s].pc = "done" => AnsweredFromStore(reqs[s]) /\ ~reqs[s].hit

\* the sequence ran to its end: the delete answered 200 and the itinerary
\* that was created, and updated by its owner, is gone
C10_Witness ==
    /\ service = "down"
    /\ ops = 5
    /\ reqs[1].pc = "done"
    /\ reqs[1].kind = "deleteItinerary"
    /\ reqs[1].status = 200
    /\ created = 1
    /\ ver = 3
    /\ store = EmptyCache

(***************************************************************************)
(* Properties of the entity caches (specification SpecCache).              *)
(***************************************************************************)
Healthy == redisClient = "client" /\ service = "up"

\* the round trip of one entity cache, given its set, get and invalidate
\* operations and its key, for the entity id. In a state, before and after
\* every step: a get of a key that is not there returns null.
RoundTripAbsent(Get(_), Key(_), id) ==
    Key(id) \notin DOMAIN cache => Get(id).ret = Null
\* In a step: the step in which Set(id, v) writes makes the get return v;
\* the get returns the same while the entry is left alone; the step in
\* which Invalidate(id) deletes makes the get return null.
RoundTripStep(Set(_, _), Get(_), Invalidate(_), Key(_), id) ==
    /\ \A v \in Payloads :
          LET out == Set(id, v)
          IN  (JsonRepresentable(v) /\ Healthy' /\ out.contacted /\ ~out.failed
               /\ cache' = out.cache)
              => (Get(id).ret)' = Some(v)
    /\ (Healthy /\ Healthy' /\ Key(id) \in DOMAIN cache /\ Key(id) \in DOMAIN cache'
        /\ cache'[Key(id)].val = cache[Key(id)].val)
       => (Get(id).ret)' = Get(id).ret
    /\ LET out == Invalidate(id)
       IN  (out.contacted /\ ~out.failed /\ cache' = out.cache)
           => (Get(id).ret)' = Null

\* C11: getCachedItinerary(id) and getCachedUser(id) return null for a key
\* that is not set; after cacheItinerary(id, v) or cacheUser(id, v) with
\* a JSON-representable v the get returns a value equal to v until the entry
\* is overwritten, invalidated or the service fails; after
\* invalidateItineraryCache(id) or invalidateUserCache(id) it returns null.
C11_EntityRoundTrip ==
    [][/\ \A i \in ItinIds :
             /\ RoundTripAbsent(getCachedItinerary, ItineraryKey, i)
             /\ RoundTripAbsent(getCachedItinerary, ItineraryKey, i)'
             /\ RoundTripStep(cacheItinerary, getCachedItinerary,
                              invalidateItineraryCache, ItineraryKey, i)
       /\ \A u \in Users :
             /\ RoundTripAbsent(getCachedUser, UserKey, u)
             /\ RoundTripAbsent(getCachedUser, UserKey, u)'
             /\ RoundTripStep(cacheUser, getCachedUser, invalidateUserCache, UserKey, u)]_vars

\* an itinerary and a user are cached, one of them the array whose string
\* needs an escape, and the gets return what was cached
C11_Witness ==
    /\ Healthy
    /\ \E i \in ItinIds, u \in Users, v, w \in Payloads :
          /\ v.t = "array"
          /\ JsonRepresentable(w)
          /\ getCachedItinerary(i).ret = Some(v)
          /\ getCachedUser(u).ret = Some(w)

\* ---- time ------------------------------------------------------------
\* the service after d seconds: SETEX gave every entry its seconds to live,
\* an entry whose time is up is gone
RedisElapse(c, d) ==
    [k \in { j \in DOMAIN c : c[j].ttl > d } |-> [c[k] EXCEPT !.ttl = @ - d]]

\* the instants that matter: the second before the next expiry, and the expiry
TickSteps(c) ==
    IF DOMAIN c = {} THEN {}
    ELSE LET m == CHOOSE n \in { c[k].ttl : k \in DOMAIN c } :
                      \A k \in DOMAIN c : n <= c[k].ttl
         IN  {m} \cup (IF m > 1 THEN {m - 1} ELSE {})

\* time passes between two calls
Tick ==
    /\ \A s \in Slots : Free(s)
    /\ \E d \in TickSteps(cache) :
          /\ cache' = RedisElapse(cache, d)
          /\ asOf' = AsOfFor(cache', asOf)
    /\ UNCHANGED << redisClient, service, conn, pend, calls, store, created, reqs,
                    ops, ver, invalDone, retry >>

\* the set and get operations of the four namespaces, and time
NextTtl ==
    \/ CallCacheUser
    \/ CallGetCachedUser
    \/ CallCacheItinerary
    \/ CallGetCachedItinerary
    \/ CallCacheItineraryList
    \/ CallGetCachedItineraryList
    \/ CallCachePublicItineraries
    \/ CallGetCachedPublicItineraries
    \/ Tick

SpecTtl == InitHandlers /\ [][NextTtl]_vars

UserKeys == { UserKey(u) : u \in Users }
ItineraryKeys == { ItineraryKey(i) : i \in ItinIds }

\* the time-to-live the namespace of a key is to have
NamespaceTtl(k) ==
    IF k \in UserKeys THEN 3600
    ELSE IF k \in ItineraryKeys THEN 1800
    ELSE IF k \in PublicListKeys THEN 300
    ELSE 600

\* the step wrote the entry of k
Written(k) ==
    /\ k \in DOMAIN cache'
    /\ \/ k \notin DOMAIN cache
       \/ cache'[k].val # cache[k].val
       \/ cache'[k].ttl > cache[k].ttl
\* the entry of k is d seconds older after the step, gone if its time was up
Aged(k, d) ==
    IF cache[k].ttl > d
    THEN k \in DOMAIN cache' /\ cache'[k] = [cache[k] EXCEPT !.ttl = @ - d]
    ELSE k \notin DOMAIN cache'
\* the seconds the step can have taken, by what it did to the entries
StepSeconds ==
    {0} \cup { cache[k].ttl - cache'[k].ttl : k \in DOMAIN cache \cap DOMAIN cache' }
        \cup { cache[k].ttl : k \in DOMAIN cache \ DOMAIN cache' }
\* the matching get of every key returns an entry if and only if it is there
GetsReturnEntries ==
    /\ \A u \in Users :
          getCachedUser(u).ret # Null <=> UserKey(u) \in DOMAIN cache
    /\ \A i \in ItinIds :
          getCachedItinerary(i).ret # Null <=> ItineraryKey(i) \in DOMAIN cache
    /\ \A u \in Users, f \in ListFilters :
          getCachedItineraryList(u, f).ret # Null <=> ListKeyOf(u, f) \in DOMAIN cache
    /\ \A f \in PublicFilters :
          getCachedPublicItineraries(f).ret # Null <=> PublicKeyOf(f) \in DOMAIN cache

\* C12: an entry written by cacheUser, cacheItinerary, cacheItineraryList or
\* cachePublicItineraries has 3600, 1800, 600 and 300 seconds to live; every
\* step that does not write it again takes the seconds that passed off that
\* time, the same for every entry, and removes the entry once none is left;
\* the matching get returns the entry as long as it is there and null after.
C12_FixedTtlExpiry ==
    [][/\ \A k \in DOMAIN cache' : Written(k) => cache'[k].ttl = NamespaceTtl(k)
       /\ \E d \in StepSeconds : \A k \in DOMAIN cache : Written(k) \/ Aged(k, d)
       /\ \A k \in DOMAIN cache' : cache'[k].ttl \in 1..NamespaceTtl(k)
       /\ GetsReturnEntries']_vars

\* a user entry written 1800 seconds ago is returned, after an entry written
\* with it has expired
C12_Witness ==
    \E u \in Users :
        /\ DOMAIN cache = {UserKey(u)}
        /\ cache[UserKey(u)].ttl = 1800
        /\ getCachedUser(u).ret # Null

\* ---- requests one at a time, and time --------------------------------
TimedReady == ops < MaxTimedOps /\ \A s \in Slots : Free(s)

NextTimed ==
    \/ \E u \in Users, q \in Queries : TimedReady /\ StartGetItineraries(1, u, q)
    \/ \E q \in Queries : TimedReady /\ StartGetPublicItineraries(1, q)
    \/ \E u \in Users, i \in ItinIds : TimedReady /\ StartGetItinerary(1, u, i)
    \/ \E u \in Users, b \in CreateBodies : TimedReady /\ StartCreateItinerary(1, u, b)
    \/ \E u \in Users, i \in ItinIds, b \in UpdateBodies :
          TimedReady /\ StartUpdateItinerary(1, u, i, b)
    \/ \E u \in Users, i \in ItinIds : TimedReady /\ StartDeleteItinerary(1, u, i)
    \/ Step(1)
    \/ Tick

SpecTimed == InitHandlers /\ [][NextTimed]_vars

ReadKinds == {"getItinerary", "getItineraries", "getPublicItineraries"}

\* C13: no step of a read request (getItinerary, getItineraries,
\* getPublicItineraries) gives an entry that is in the cache more seconds to
\* live than it has.
C13_NoSlidingExpiration ==
    [][(~Free(1) /\ reqs[1].kind \in ReadKinds)
       => \A k \in DOMAIN cache \cap DOMAIN cache' : cache'[k].ttl <= cache[k].ttl]_vars

\* the same field/value pairs in the opposite field order
Reverse(pairs) == [n \in 1..Len(pairs) |-> pairs[Len(pairs) + 1 - n]]

\* C14: the key of a filter record does not depend on the order of its
\* fields: a list cached by cacheItineraryList (cachePublicItineraries)
\* under one order is returned by getCachedItineraryList
\* (getCachedPublicItineraries) under the opposite order.
C14_FilterKeyDeterminism ==
    Healthy =>
        /\ \A u \in Users, f \in ListFilters :
              ListKeyOf(u, f) \in DOMAIN cache
              => getCachedItineraryList(u, Reverse(f)).ret = getCachedItineraryList(u, f).ret
        /\ \A f \in PublicFilters :
              PublicKeyOf(f) \in DOMAIN cache
              => getCachedPublicItineraries(Reverse(f)).ret = getCachedPublicItineraries(f).ret

\* the request without page, limit and sort, and the request that passes
\* page=1&limit=10&sort=-createdAt
DefaultQueries == {QueryPool[1], QueryPool[2]}

\* C15: requests one at a time (SpecSeq): a getItineraries request with the
\* defaults, omitted or passed explicitly, does not miss the cache while the
\* list of the same user is cached for the defaults in the other form.
C15_DefaultsShareKey ==
    \A s \in Slots :
        LET r == reqs[s]
        IN  (r.kind = "getItineraries" /\ r.pc = "find" /\ r.q \in DefaultQueries)
            => \A q \in DefaultQueries :
                  ListKeyOf(r.user, ListCacheKey(q)) \notin DOMAIN cache

\* the field/value pairs of a filter record, the undefined ones left out
Pairs(filters) ==
    { filters[n] : n \in { m \in 1..Len(filters) : filters[m][2].t # "undefined" } }

\* C16: getCachedItineraryList(U, f) returns an envelope only from an entry
\* that cacheItineraryList stored (the entry with the 600 seconds of the list
\* namespace), and the key of (U, f) is the key of no other user, of no filter
\* record with other values, of no public list, user or itinerary.
C16_NoKeyCollisions ==
    \A u \in Users, f \in ListFilters :
        LET k == ListKeyOf(u, f)
        IN  /\ getCachedItineraryList(u, f).ret # Null
               => (k \in DOMAIN cache /\ cache[k].ttl = 600)
            /\ \A u2 \in Users, f2 \in ListFilters :
                  ListKeyOf(u2, f2) = k => (u2 = u /\ Pairs(f2) = Pairs(f))
            /\ \A g \in PublicFilters : PublicKeyOf(g) # k
            /\ k \notin UserKeys \cup ItineraryKeys

\* the lists of two users and the public list are cached for the same
\* query with three different envelopes, and each get returns its own
C16_Witness ==
    \E u1, u2 \in Users, q \in Queries :
        LET a == getCachedItineraryList(u1, ListCacheKey(q)).ret
            b == getCachedItineraryList(u2, ListCacheKey(q)).ret
            c == getCachedPublicItineraries(PublicCacheKey(q)).ret
        IN  /\ u1 # u2
            /\ a # Null /\ b # Null /\ c # Null
            /\ a # b /\ a # c /\ b # c

\* C17: requests one at a time (SpecSeq): when createItinerary has responded
\* 201 to user U, no itineraries:U:* entry is in the cache: every one that
\* was there when the itinerary was persisted has been deleted.
C17_CreateInvalidatesLists ==
    \A s \in Slots :
        LET r == reqs[s]
        IN  (r.pc = "done" /\ r.kind = "createItinerary" /\ r.status = 201)
            => /\ UserListKeys(r.user) \cap DOMAIN cache = {}
               /\ RedisKeys(cache, UserItinerariesPattern(r.user)) = {}

\* createItinerary has responded 201 after its invalidation deleted the
\* lists that were cached for the user
C17_Witness ==
    /\ reqs[1].pc = "done"
    /\ reqs[1].kind = "createItinerary"
    /\ reqs[1].status = 201
    /\ invalDone[reqs[1].user] = [ver |-> reqs[1].wver, purged |-> TRUE]

\* C18: requests one at a time (SpecSeq): when updateItinerary or
\* deleteItinerary has responded 200 for itinerary I to its owner U, neither
\* itinerary:<I> nor any itineraries:U:* entry is in the cache.
C18_WriteInvalidatesEntityAndLists ==
    \A s \in Slots :
        LET r == reqs[s]
        IN  (r.pc = "done" /\ r.kind \in {"updateItinerary", "deleteItinerary"}
             /\ r.status = 200)
            => /\ ItineraryKey(r.id) \notin DOMAIN cache
               /\ UserListKeys(r.user) \cap DOMAIN cache = {}
               /\ RedisKeys(cache, UserItinerariesPattern(r.user)) = {}

\* an update or delete has responded 200 after its invalidations deleted
\* the entity entry and the lists that were cached
C18_Witness ==
    /\ reqs[1].pc = "done"
    /\ reqs[1].kind \in {"updateItinerary", "deleteItinerary"}
    /\ reqs[1].status = 200
    /\ reqs[1].dropped
    /\ invalDone[reqs[1].user] = [ver |-> reqs[1].wver, purged |-> TRUE]

\* the envelope the entry of the request's key holds
CachedEnvelope(r) == JsToEnvelope(JSONparse(cache[ListKey(r)].val).doc)

\* C19: requests one at a time, no expiry (SpecSeq): a getItineraries
\* request misses only when its key is not cached; after a miss it has
\* answered the envelope computed from the store and stored it under its
\* key; a request that finds the entry is answered from it, and with no
\* mutation since the entry was computed the envelope equals the one the
\* store gives (same items and pagination).
C19_ListHitPath ==
    \A s \in Slots :
        LET r == reqs[s]
        IN  r.kind = "getItineraries" =>
               /\ r.pc \in {"find", "count", "cacheList"}
                  => (ListKey(r) \notin DOMAIN cache /\ ~r.hit)
               /\ (r.pc = "done" /\ ~r.hit)
                  => /\ AnsweredFromStore(r)
                     /\ ListKey(r) \in DOMAIN cache
                     /\ CachedEnvelope(r) = r.list
               /\ (r.pc = "done" /\ r.hit)
                  => /\ r.status = 200
                     /\ ListKey(r) \in DOMAIN cache
                     /\ CachedEnvelope(r) = r.list
                     /\ r.readVer = ver => AnsweredFromStore(r)

\* a second request for a list of one itinerary was answered from the cache
C19_Witness ==
    /\ reqs[1].pc = "done"
    /\ reqs[1].kind = "getItineraries"
    /\ reqs[1].hit
    /\ reqs[1].readVer = ver
    /\ reqs[1].list.pagination.total = 1
    /\ Len(reqs[1].list.itineraries) = 1

\* C20: getItinerary reads the store and writes the entity cache only after
\* a miss of getCachedItinerary: when it is about to cache what it read from
\* the store, the entity is not in the cache.
C20_GetItineraryReadThrough ==
    \A s \in Slots :
        LET r == reqs[s]
        IN  (r.kind = "getItinerary" /\ r.pc = "cacheItinerary")
            => ItineraryKey(r.id) \notin DOMAIN cache

\* ---- requests one at a time, and malformed payloads -------------------
\* a stored string that is not JSON: an object cut off after its first name
CorruptText == << "{", "\"", "v" >>

\* the string under a list key is replaced by a malformed one (a truncated
\* write, another writer): the entry keeps its time to live
Corrupt ==
    /\ \A s \in Slots : Free(s)
    /\ \E k \in DOMAIN cache \cap AllListKeys :
          /\ cache[k].val # CorruptText
          /\ cache' = [cache EXCEPT ![k].val = CorruptText]
    /\ UNCHANGED << redisClient, service, conn, pend, calls, store, created, reqs,
                    ops, ver, asOf, invalDone, retry >>

NextCorrupt ==
    \/ \E u \in Users, q \in Queries : TimedReady /\ StartGetItineraries(1, u, q)
    \/ \E q \in Queries : TimedReady /\ StartGetPublicItineraries(1, q)
    \/ \E u \in Users, i \in ItinIds : TimedReady /\ StartGetItinerary(1, u, i)
    \/ \E u \in Users, b \in CreateBodies : TimedReady /\ StartCreateItinerary(1, u, b)
    \/ \E u \in Users, i \in ItinIds, b \in UpdateBodies :
          TimedReady /\ StartUpdateItinerary(1, u, i, b)
    \/ \E u \in Users, i \in ItinIds : TimedReady /\ StartDeleteItinerary(1, u, i)
    \/ Step(1)
    \/ Corrupt

SpecCorrupt == InitHandlers /\ [][NextCorrupt]_vars

\* the string under key k is not valid JSON
Malformed(k) == k \in DOMAIN cache /\ JSONparse(cache[k].val).threw

\* the get of the list a request asks for
ListGet(r) ==
    IF r.kind = "getItineraries" THEN getCachedItineraryList(r.user, ListCacheKey(r.q))
    ELSE getCachedPublicItineraries(PublicCacheKey(r.q))

\* C21: a malformed payload is a miss and is repaired: the get of a key whose
\* string is not valid JSON returns null and does not throw; the list
\* handler that finds such an entry goes on to the store, and its cache
\* population answers 200 with the envelope of the store and leaves an entry
\* that the get returns.
C21_MalformedPayloadIsMiss ==
    [][/\ \A u \in Users, f \in ListFilters :
             Malformed(ListKeyOf(u, f))
             => (getCachedItineraryList(u, f).ret = Null
                 /\ ~getCachedItineraryList(u, f).threw)
       /\ \A f \in PublicFilters :
             Malformed(PublicKeyOf(f))
             => (getCachedPublicItineraries(f).ret = Null
                 /\ ~getCachedPublicItineraries(f).threw)
       /\ \A s \in Slots :
             (reqs[s].kind \in ListKinds /\ Malformed(ListKey(reqs[s])))
             => /\ reqs[s].pc = "checkCache"
                   => (reqs'[s].pc = "find" /\ cache' = cache /\ store' = store)
                /\ reqs[s].pc = "cacheList"
                   => /\ reqs'[s].pc = "done"
                      /\ reqs'[s].status = 200
                      /\ ~reqs'[s].hit
                      /\ AnsweredFromStore(reqs[s])'
                      /\ ~Malformed(ListKey(reqs[s]))'
                      /\ ListGet(reqs[s])'.ret = Some(EnvelopeToJs(reqs'[s].list))]_vars

\* a list request found a malformed entry under its key, has read one
\* itinerary from the store and is about to overwrite the entry
C21_Witness ==
    /\ reqs[1].kind \in ListKinds
    /\ reqs[1].pc = "cacheList"
    /\ reqs[1].total = 1
    /\ Malformed(ListKey(reqs[1]))

\* ---- requests one at a time, and a service that stops answering ------
\* the service accepts commands and never replies: the promise of
\* redisClient.get / setEx / del / keys stays pending
ServiceHang ==
    /\ redisClient = "client"
    /\ service = "up"
    /\ service' = "hung"
    /\ UNCHANGED << redisClient, conn, cache, pend, calls, hvars >>

\* the request is at an await of a cache operation
AwaitsCache(r) ==
    r.pc \in {"checkCache", "cacheList", "cacheItinerary", "invalidateItinerary",
              "invalidateLists", "deleteKeys"}

\* a step of the request in slot s: the await of a cache operation resumes
\* when the service replies, no timer ends it
StallStep(s) ==
    /\ AwaitsCache(reqs[s]) => service # "hung"
    /\ Step(s)

NextStall ==
    \/ \E u \in Users, q \in Queries : TimedReady /\ StartGetItineraries(1, u, q)
    \/ \E q \in Queries : TimedReady /\ StartGetPublicItineraries(1, q)
    \/ \E u \in Users, i \in ItinIds : TimedReady /\ StartGetItinerary(1, u, i)
    \/ \E u \in Users, b \in CreateBodies : TimedReady /\ StartCreateItinerary(1, u, b)
    \/ \E u \in Users, i \in ItinIds, b \in UpdateBodies :
          TimedReady /\ StartUpdateItinerary(1, u, i, b)
    \/ \E u \in Users, i \in ItinIds : TimedReady /\ StartDeleteItinerary(1, u, i)
    \/ StallStep(1)
    \/ ServiceHang

\* the event loop runs every continuation that is ready
SpecStall == InitHandlers /\ [][NextStall]_vars /\ WF_vars(StallStep(1))

\* C22: every request that a handler has started is answered, also when a
\* cache operation it awaits never completes.
C22_NoStall == (reqs[1].pc \notin {"idle", "done"}) ~> (reqs[1].pc = "done")

\* ---- connectRedis at startup -------------------------------------------
NextConnect ==
    \/ ConnectCreate
    \/ ConnectOk
    \/ ConnectError

SpecConnect == InitCache /\ [][NextConnect]_vars

\* C23: connection establishment is bounded and never fatal: a retry is
\* scheduled only after at most 10 attempts, at most one hour of retry time
\* and an error other than a refused connection, so there are at most 11
\* attempts; every delay is at most 3000 ms; connectRedis ends by returning
\* the client or null.
C23_BoundedConnect ==
    /\ retry.attempt <= 11
    /\ retry.delay <= 3000
    /\ (retry.phase = "connecting" /\ retry.attempt > 0)
       => /\ retry.attempt <= 10
          /\ retry.total <= 1000 * 60 * 60
          /\ retry.error # "ECONNREFUSED"
    /\ retry.phase = "done" => conn \in {"client", "null"}
    /\ retry.phase # "done" => conn = "none"
    /\ conn = "client" => (redisClient = "client" /\ service = "up")

\* connectRedis has returned null after the eleventh attempt failed
C23_Witness ==
    /\ retry.phase = "done"
    /\ retry.attempt = 11
    /\ conn = "null"

\* C24: concurrent requests (SpecConc): the step in which updateItinerary or
\* deleteItinerary looks the itinerary up answers 404 when there is none and
\* 403 when the requester is not its owner, and leaves the store and the
\* cache as they are; a request answered 403 or 404 has made no write and no
\* invalidation; only a requester that was found to be the owner goes on.
C24_OnlyOwnerMutates ==
    [][\A s \in Slots :
          LET r == reqs[s]
          IN  /\ (r.kind \in {"updateItinerary", "deleteItinerary"}
                  /\ r.pc = "findById" /\ reqs'[s] # r)
                 => IF r.id \notin DOMAIN store
                    THEN /\ reqs'[s].pc = "done" /\ reqs'[s].status = 404
                         /\ store' = store /\ cache' = cache
                    ELSE IF store[r.id].userId # r.user
                    THEN /\ reqs'[s].pc = "done" /\ reqs'[s].status = 403
                         /\ store' = store /\ cache' = cache
                    ELSE reqs'[s].pc = "mutate" /\ store' = store /\ cache' = cache
              /\ (reqs'[s].kind \in {"updateItinerary", "deleteItinerary"}
                  /\ reqs'[s].pc = "done" /\ reqs'[s].status \in {403, 404})
                 => (reqs'[s].wver = 0 /\ ~reqs'[s].dropped)]_vars

\* an update or delete by a user who is not the owner was answered 403
\* while the itinerary is in the store and in the entity cache
C24_Witness ==
    \E s \in Slots :
        LET r == reqs[s]
        IN  /\ r.kind \in {"updateItinerary", "deleteItinerary"}
            /\ r.pc = "done"
            /\ r.status = 403
            /\ r.id \in DOMAIN store
            /\ store[r.id].userId # r.user
            /\ ItineraryKey(r.id) \in DOMAIN cache

\* every itinerary of the list belongs to user u
OwnedBy(items, u) == \A n \in 1..Len(items) : items[n].userId._id = u

\* C25: requests one at a time (SpecSeq): every itinerary in a
\* getItineraries response to user U has owner U, in the response and in the
\* store, whether the envelope was computed from the store or served from
\* the cache, and every envelope cached under a key of U holds itineraries
\* of U only.
C25_UserIsolation ==
    /\ \A s \in Slots :
          LET r == reqs[s]
          IN  (r.kind = "getItineraries" /\ r.pc = "done" /\ r.status = 200)
              => /\ OwnedBy(r.list.itineraries, r.user)
                 /\ \A n \in 1..Len(r.list.itineraries) :
                       LET i == r.list.itineraries[n]._id
                       IN  i \in DOMAIN store /\ store[i].userId = r.user
    /\ \A u \in Users, f \in ListFilters :
          ListKeyOf(u, f) \in DOMAIN cache
          => OwnedBy(JsToEnvelope(JSONparse(cache[ListKeyOf(u, f)].val).doc).itineraries, u)

\* two users have an itinerary each, and one of them was served a list of
\* one itinerary from the cache
C25_Witness ==
    /\ \E i, j \in DOMAIN store : store[i].userId # store[j].userId
    /\ \E s \in Slots :
          /\ reqs[s].kind = "getItineraries"
          /\ reqs[s].pc = "done"
          /\ reqs[s].hit
          /\ Len(reqs[s].list.itineraries) = 1

\* the itinerary with this id was created and is no longer in the store
Deleted(i) == i \notin DOMAIN store /\ \E n \in 1..created : ItinPool[n] = i

\* C26: requests one at a time (SpecSeq): when deleteItinerary has responded
\* 200 for itinerary I, I is not in the store; a getItinerary for a deleted
\* itinerary is answered 404; no getItineraries response contains an
\* itinerary that is not in the store.
C26_DeleteRemoves ==
    \A s \in Slots :
        LET r == reqs[s]
        IN  r.pc = "done" =>
               /\ (r.kind = "deleteItinerary" /\ r.status = 200) => Deleted(r.id)
               /\ (r.kind = "getItinerary" /\ Deleted(r.id)) => r.status = 404
               /\ (r.kind = "getItineraries" /\ r.status = 200)
                  => \A n \in 1..Len(r.list.itineraries) :
                        ~Deleted(r.list.itineraries[n]._id)

\* the one itinerary of the store was deleted after its owner's list had
\* been cached, and the owner's next list request is answered an empty list
C26_Witness ==
    /\ created = 1
    /\ Deleted(ItinPool[1])
    /\ reqs[1].kind = "getItineraries"
    /\ reqs[1].pc = "done"
    /\ reqs[1].purged
    /\ reqs[1].status = 200
    /\ reqs[1].list.pagination.total = 0

\* ---- one list request on a store of any content ------------------------
\* page and limit of the query string, 0 for a parameter that is left out
Pages == {0, 1, 2, 3}
Limits == {0, 1, 2, 100}
Sorts == { Undefined, Str(<< "t", "i", "t", "l", "e" >>) }
PageQuery(p, l, srt) ==
    [NoQuery EXCEPT !.page = IF p = 0 THEN Undefined ELSE Str(NumToChars(p)),
                    !.limit = IF l = 0 THEN Undefined ELSE Str(NumToChars(l)),
                    !.sort = srt]
PageQueries == { PageQuery(p, l, srt) : p \in Pages, l \in Limits, srt \in Sorts }

\* the collections of up to MaxItins itineraries that requests can leave
StoreDocs ==
    { NewDoc(n, [b EXCEPT !.userId = u]) : n \in 1..MaxItins, u \in Users, b \in CreateBodies }
StorePool ==
    UNION { { st \in [ids -> StoreDocs] : \A i \in ids : st[i]._id = i } :
            ids \in SUBSET ItinIds }

InitPage ==
    /\ redisClient = "client"
    /\ service = "up"
    /\ conn = "client"
    /\ cache = EmptyCache
    /\ pend = NoPend
    /\ calls = 0
    /\ store \in StorePool
    /\ created = MaxItins
    /\ reqs = [s \in Slots |-> IdleReq]
    /\ ops = 0
    /\ ver = 0
    /\ asOf = [k \in AllListKeys |-> 0]
    /\ invalDone = [u \in Users |-> NoWrite]
    /\ retry = NoRetry

NextPage ==
    \/ \E u \in Users, q \in PageQueries : ops = 0 /\ StartGetItineraries(1, u, q)
    \/ ListCheckCache(1)
    \/ ListFind(1)
    \/ ListCount(1)
    \/ ListPopulate(1)

SpecPage == InitPage /\ [][NextPage]_vars

\* the user's itineraries in the order of the request
SortedOf(u, q) ==
    SortDocs(Filter(Natural(store, MaxItins), u, q), OrDefault(q.sort, Str(DefaultSort)).s)

\* C27: a getItineraries response computed from the store for page p and
\* limit l (1 and 10 when left out) has pagination.current = p, total = the
\* number of the user's itineraries, pages = ceil(total / l), and its items
\* are those at positions (p-1)*l .. p*l-1 of the user's sorted itineraries.
C27_Pagination ==
    \A p \in Pages, l \in Limits, srt \in Sorts :
        LET r == reqs[1]
            page == IF p = 0 THEN 1 ELSE p
            limit == IF l = 0 THEN 10 ELSE l
            total == Cardinality({ i \in DOMAIN store : store[i].userId = r.user })
            all == SortedOf(r.user, r.q)
            items == r.list.itineraries
            first == (page - 1) * limit
            count == IF total <= first THEN 0
                     ELSE IF total - first < limit THEN total - first ELSE limit
        IN  (r.kind = "getItineraries" /\ r.pc = "done" /\ ~r.hit
             /\ r.q = PageQuery(p, l, srt))
            => /\ r.status = 200
               /\ r.list.pagination.current = page
               /\ r.list.pagination.total = total
               /\ r.list.pagination.pages * limit >= total
               /\ (r.list.pagination.pages - 1) * limit < total \/ r.list.pagination.pages = 0
               /\ Len(all) = total
               /\ Len(items) = count
               /\ Len(items) <= limit
               /\ \A n \in 1..count : items[n] = Populate(all[first + n], "name email")

\* the second page of one of a user's two itineraries
C27_Witness ==
    /\ reqs[1].kind = "getItineraries"
    /\ reqs[1].pc = "done"
    /\ ~reqs[1].hit
    /\ reqs[1].list.pagination = [current |-> 2, pages |-> 2, total |-> 2]
    /\ Len(reqs[1].list.itineraries) = 1
    /\ reqs[1].list.itineraries[1]._id = ItinPool[1]

\* C28: requests one at a time (SpecSeq): the itinerary that createItinerary
\* has persisted has the userId of the requester, whatever userId the
\* request body carried.
C28_CreateOwnerIsRequester ==
    \A s \in Slots :
        LET r == reqs[s]
        IN  (r.kind = "createItinerary"
             /\ (r.pc \in {"invalidateLists", "deleteKeys"}
                 \/ (r.pc = "done" /\ r.status = 201)))
            => /\ r.id \in DOMAIN store
               /\ store[r.id].userId = r.user
               /\ r.pc = "done" => r.itinerary.userId._id = r.user

\* the first user has created the itinerary of the body that carries the
\* second user's id, and owns it
C28_Witness ==
    /\ reqs[1].kind = "createItinerary"
    /\ reqs[1].pc = "done"
    /\ reqs[1].status = 201
    /\ reqs[1].user = UserPool[1]
    /\ \E b \in CreateBodies :
          /\ b.userId = UserPool[2]
          /\ store[reqs[1].id].title = b.title
    /\ store[reqs[1].id].userId = UserPool[1]

InvalidationSteps == {"invalidateItinerary", "invalidateLists", "deleteKeys"}

\* C29: concurrent requests (SpecConc): in createItinerary, updateItinerary
\* and deleteItinerary the store is mutated before any invalidation call, an
\* invalidation is issued only by a request whose store mutation has
\* completed, and the success response is sent only by the step in which the
\* last invalidation call returns.
C29_InvalidationOrdered ==
    [][\A s \in Slots :
          LET r == reqs[s]
          IN  (r.kind \in WriteKinds /\ reqs'[s] # r /\ reqs'[s].kind = r.kind) =>
                 /\ store' # store
                    => (r.pc \in {"create", "mutate"} /\ cache' = cache
                        /\ reqs'[s].pc \in InvalidationSteps)
                 /\ r.pc \in InvalidationSteps => (r.wver > 0 /\ store' = store)
                 /\ cache' # cache => r.pc \in InvalidationSteps
                 /\ (r.kind # "createItinerary" /\ reqs'[s].pc = "invalidateLists")
                    => r.pc = "invalidateItinerary"
                 /\ (reqs'[s].pc = "done" /\ reqs'[s].status \in {200, 201})
                    => /\ r.pc \in {"invalidateLists", "deleteKeys"}
                       /\ invalDone'[r.user].ver >= r.wver]_vars

\* an update has changed the store, its invalidation has found keys to
\* delete and the response is not sent yet
C29_Witness ==
    \E s \in Slots :
        /\ reqs[s].kind = "updateItinerary"
        /\ reqs[s].pc = "deleteKeys"
        /\ reqs[s].wver = ver
        /\ reqs[s].keys # {}
        /\ reqs[s].status = 0

\* ---- two writers of one cached itinerary --------------------------------
\* the requests that fill the cache before the writers start: a create, a
\* getItinerary and two getItineraries of the creator
SetupOps == 4

\* the setup and the two writers
WriterOps == 6

\* no read request (and no create) is between its first step and its response
NoReadInFlight ==
    \A t \in Slots : reqs[t].kind \notin {"updateItinerary", "deleteItinerary"} => Free(t)

WritersReady == ops >= SetupOps /\ ops < WriterOps /\ NoReadInFlight

NextWriters ==
    \/ \E u \in Users, b \in CreateBodies : Due({0}) /\ StartCreateItinerary(1, u, b)
    \/ Due({1}) /\ StartGetItinerary(1, reqs[1].user, ItinPool[created])
    \/ \E q \in Queries : Due({2, 3}) /\ StartGetItineraries(1, reqs[1].user, q)
    \/ \E s \in Slots, u \in Users, b \in UpdateBodies :
          WritersReady /\ StartUpdateItinerary(s, u, ItinPool[created], b)
    \/ \E s \in Slots, u \in Users :
          WritersReady /\ StartDeleteItinerary(s, u, ItinPool[created])
    \/ \E s \in Slots : Step(s)

SpecWriters == InitHandlers /\ [][NextWriters]_vars

\* C30: two writers of one itinerary (SpecWriters): an itinerary and lists of
\* its owner are cached, then two updateItinerary or deleteItinerary requests
\* for that itinerary run in any interleaving with no read in flight; once
\* both have responded and the store was changed, neither the itinerary's
\* entry nor any list entry of a user is left in the cache.
C30_ConcurrentWritersNoStale ==
    (/\ ops = WriterOps
     /\ \A s \in Slots : Free(s)
     /\ ver >= 2)
    => /\ ItineraryKey(ItinPool[1]) \notin DOMAIN cache
       /\ \A u \in Users : UserListKeys(u) \cap DOMAIN cache = {}
       /\ \A u \in Users : RedisKeys(cache, UserItinerariesPattern(u)) = {}

\* both writers have answered 200 and they overlapped: the request of slot 2
\* changed the store first, and the request of slot 1, which changed it
\* later, deleted the itinerary's entry before the one of slot 2 got to it
C30_Witness ==
    /\ ops = WriterOps
    /\ \A s \in Slots : /\ reqs[s].kind \in {"updateItinerary", "deleteItinerary"}
                        /\ reqs[s].pc = "done"
                        /\ reqs[s].status = 200
    /\ reqs[2].wver > 0
    /\ reqs[1].wver > reqs[2].wver
    /\ reqs[1].dropped
    /\ ~ reqs[2].dropped
    /\ \E u \in Users : invalDone[u].ver >= reqs[1].wver
    /\ DOMAIN cache = {}

\* ---- a list written between KEYS and DEL --------------------------------
\* the DEL of a direct invalidateUserItineraryCaches call
UserDelStep ==
    /\ pend.phase = "keys"
    /\ pend.scope = "user"
    /\ pend'.phase = "done"

\* the list keys of the invalidated user that cacheItineraryList wrote after
\* KEYS returned
WrittenMidScan == pend.wrote \cap UserListKeys(pend.user)

\* C31 as stated: direct calls (SpecCache): a list key of user U that
\* cacheItineraryList writes after invalidateUserItineraryCaches(U) got the
\* reply of KEYS and before its DEL is not among the keys that are deleted
\* and is in the cache after the invalidation returns.
C31_MidScanWriteSurvives ==
    [][UserDelStep =>
          \A k \in WrittenMidScan : k \notin pend.keys /\ k \in DOMAIN cache']_vars

\* C31: direct calls (SpecCache): a list key of user U that did not exist
\* when KEYS replied, and that cacheItineraryList writes before the DEL of
\* invalidateUserItineraryCaches(U), is left in the cache by the DEL with the
\* value written.
C31_MidScanCreateSurvives ==
    [][UserDelStep =>
          \A k \in WrittenMidScan :
              k \notin pend.keys
              => /\ k \in DOMAIN cache
                 /\ k \in DOMAIN cache'
                 /\ cache'[k] = cache[k]]_vars

\* an invalidation has deleted the keys it listed and has left behind a key
\* that was created in between
C31_Witness ==
    /\ pend.phase = "done"
    /\ pend.scope = "user"
    /\ pend.ok
    /\ pend.keys # {}
    /\ pend.keys \cap DOMAIN cache = {}
    /\ \E k \in WrittenMidScan : k \notin pend.keys /\ k \in DOMAIN cache

\* C32: requests one at a time, the service up (SpecSeq): between two
\* requests, an itinerary:<id> entry that exists is the store's current
\* record of that itinerary, as getItinerary cached it, and an itinerary
\* that is not in the store has no entry.
C32_EntityCacheCoherent ==
    (\A s \in Slots : Free(s))
    => \A i \in ItinIds :
          ItineraryKey(i) \in DOMAIN cache
          => /\ i \in DOMAIN store
             /\ getCachedItinerary(i).ret
                  = Some(DocToJs(Populate(store[i], "name email")))

\* an itinerary was created, updated and then read: its entry is there, and
\* it is the updated record
C32_Witness ==
    /\ \A s \in Slots : Free(s)
    /\ reqs[1].kind = "getItinerary"
    /\ reqs[1].status = 200
    /\ reqs[1].id \in DOMAIN store
    /\ store[reqs[1].id].title = << "T", "o", "u", "r" >>
    /\ store[reqs[1].id].destination = << "R", "o", "m", "e" >>
    /\ ItineraryKey(reqs[1].id) \in DOMAIN cache
    /\ JsToDoc(getCachedItinerary(reqs[1].id).ret.val) = reqs[1].itinerary

\* C33: requests one at a time (SpecSeq): no step changes the userId of an
\* itinerary that is in the store, whatever the body of the update, so an
\* update leaves the itinerary in the list scope of its requester, the scope
\* that the handler invalidates.
C33_OwnershipImmutable ==
    [][\A i \in DOMAIN store \cap DOMAIN store' :
          /\ store'[i].userId = store[i].userId
          /\ \A s \in Slots :
                (reqs[s].kind = "updateItinerary" /\ reqs[s].pc = "mutate"
                 /\ reqs[s].id = i /\ reqs'[s].pc = "invalidateItinerary")
                => store'[i].userId = reqs[s].user]_vars

\* C34: an update racing a delete (SpecWriters): when the itinerary of an
\* updateItinerary request that has passed the existence and ownership check
\* is deleted before its findByIdAndUpdate, the request is answered 404 or
\* 200 and not with an internal error; and when both requests have
\* responded, neither the itinerary's entry nor a list entry cached before
\* the delete is left.
C34_UpdateRacingDeleteEndsCleanly ==
    [][/\ \A s \in Slots :
             (/\ reqs[s].kind = "updateItinerary"
              /\ reqs[s].pc = "mutate"
              /\ reqs[s].id \notin DOMAIN store
              /\ reqs'[s] # reqs[s])
             => /\ reqs'[s].pc = "done"
                /\ reqs'[s].status \in {200, 404}
       /\ (/\ ops' = WriterOps
           /\ \A s \in Slots : reqs'[s].pc = "done"
           /\ \E s, t \in Slots : /\ reqs'[s].kind = "updateItinerary"
                                  /\ reqs'[t].kind = "deleteItinerary"
                                  /\ reqs'[t].status = 200)
          => /\ ItineraryKey(ItinPool[1]) \notin DOMAIN cache'
             /\ \A u \in Users : UserListKeys(u) \cap DOMAIN cache' = {}]_vars

\* C35: concurrent requests (SpecConc): an itinerary:<id> entry is written
\* only by the caching step of a getItinerary request that has found the
\* itinerary and has found its requester to be the owner, and the entry is
\* that itinerary; a getItinerary request answered 404 or 403 is answered by
\* a step that leaves the cache alone, and its response has no itinerary.
C35_EntityCachedOnlyForOwner ==
    [][/\ \A i \in ItinIds :
             (/\ ItineraryKey(i) \in DOMAIN cache'
              /\ \/ ItineraryKey(i) \notin DOMAIN cache
                 \/ cache'[ItineraryKey(i)] # cache[ItineraryKey(i)])
             => \E s \in Slots :
                   /\ reqs[s].kind = "getItinerary"
                   /\ reqs[s].pc = "cacheItinerary"
                   /\ reqs[s].id = i
                   /\ reqs[s].doc._id = i
                   /\ reqs[s].doc.userId._id = reqs[s].user
                   /\ reqs'[s].pc = "done"
                   /\ cache' = cacheItinerary(i, DocToJs(reqs[s].doc)).cache
       /\ \A s \in Slots :
             (/\ reqs[s].kind = "getItinerary"
              /\ reqs'[s] # reqs[s]
              /\ reqs'[s].kind = "getItinerary"
              /\ reqs'[s].status \in {403, 404})
             => /\ cache' = cache
                /\ reqs[s].pc = "findById"
                /\ reqs'[s].itinerary = NoDoc
                /\ reqs'[s].doc = NoDoc
                /\ reqs'[s].status = 404 <=> reqs[s].id \notin DOMAIN store
                /\ reqs'[s].status = 403 => store[reqs[s].id].userId # reqs[s].user]_vars

\* the owner's getItinerary was answered 200 and its entry is cached, and
\* another user's getItinerary of the same itinerary was answered 403
C35_Witness ==
    \E s, t \in Slots :
        /\ reqs[s].kind = "getItinerary"
        /\ reqs[s].status = 200
        /\ ItineraryKey(reqs[s].id) \in DOMAIN cache
        /\ reqs[t].kind = "getItinerary"
        /\ reqs[t].status = 403
        /\ reqs[t].id = reqs[s].id
        /\ reqs[t].user # reqs[s].user
        /\ reqs[t].itinerary = NoDoc
        /\ JsToDoc(getCachedItinerary(reqs[s].id).ret.val).userId._id = reqs[s].user

\* ---- shareItinerary and getSharedItinerary ------------------------------
\* POST /api/itineraries/:id/share, behind `protect`
StartShareItinerary(s, u, i) ==
    /\ Free(s)
    /\ reqs' = [reqs EXCEPT ![s] =
                 [IdleReq EXCEPT !.kind = "shareItinerary", !.pc = "findById",
                                 !.user = u, !.id = i]]
    /\ ops' = ops + 1
    /\ UNCHANGED << cvars, cache, store, created, ver, asOf, invalDone >>

\* GET /api/itineraries/share/:shareableId, public: there is no req.user
StartGetSharedItinerary(s, i) ==
    /\ Free(s)
    /\ reqs' = [reqs EXCEPT ![s] =
                 [IdleReq EXCEPT !.kind = "getSharedItinerary", !.pc = "findById",
                                 !.id = i,
                                 !.shared = \E t \in Slots :
                                               /\ reqs[t].kind = "shareItinerary"
                                               /\ reqs[t].status = 200
                                               /\ reqs[t].id = i]]
    /\ ops' = ops + 1
    /\ UNCHANGED << cvars, cache, store, created, ver, asOf, invalDone >>

\* { shareableId, shareUrl, sharedData: { title, destination, ... } }
ShareData(doc) ==
    [shareableId |-> doc._id, title |-> doc.title, destination |-> doc.destination]

\* sanitizedItinerary: the fields of the document and the name of its owner
Sanitized(doc) ==
    [_id |-> doc._id, title |-> doc.title, destination |-> doc.destination,
     createdAt |-> doc.createdAt, createdBy |-> UserName(doc.userId)]

\* await Itinerary.findById(id); 404, 403 or the share response
ShareItineraryFind(s) ==
    LET r == reqs[s]
    IN  /\ r.kind = "shareItinerary"
        /\ r.pc = "findById"
        /\ reqs' = [reqs EXCEPT ![s] =
                     IF r.id \notin DOMAIN store THEN Responded(r, 404)
                     ELSE IF store[r.id].userId # r.user THEN Responded(r, 403)
                     ELSE [Responded(r, 200) EXCEPT !.itinerary = ShareData(store[r.id])]]
        /\ UNCHANGED << cvars, cache, store, created, ops, ver, asOf, invalDone >>

\* a getSharedItinerary that answers only for an itinerary that was shared
GetSharedItineraryFindRequiresShare(s) ==
    LET r == reqs[s]
    IN  /\ r.kind = "getSharedItinerary"
        /\ r.pc = "findById"
        /\ reqs' = [reqs EXCEPT ![s] =
                     IF r.id \notin DOMAIN store \/ ~r.shared THEN Responded(r, 404)
                     ELSE [Responded(r, 200) EXCEPT !.itinerary = Sanitized(store[r.id])]]
        /\ UNCHANGED << cvars, cache, store, created, ops, ver, asOf, invalDone >>

\* await Itinerary.findById(shareableId).populate('userId', 'name').lean();
\* 404 or the sanitized itinerary
GetSharedItineraryFind(s) ==
    LET r == reqs[s]
    IN  /\ r.kind = "getSharedItinerary"
        /\ r.pc = "findById"
        /\ reqs' = [reqs EXCEPT ![s] =
                     IF r.id \notin DOMAIN store THEN Responded(r, 404)
                     ELSE [Responded(r, 200) EXCEPT !.itinerary = Sanitized(store[r.id])]]
        /\ UNCHANGED << cvars, cache, store, created, ops, ver, asOf, invalDone >>

\* every handler, one request at a time; getSharedItinerary in slot 2
NextShare ==
    \/ \E u \in Users, q \in Queries : SeqReady /\ StartGetItineraries(1, u, q)
    \/ \E q \in Queries : SeqReady /\ StartGetPublicItineraries(1, q)
    \/ \E u \in Users, i \in ItinIds : SeqReady /\ StartGetItinerary(1, u, i)
    \/ \E u \in Users, b \in CreateBodies : SeqReady /\ StartCreateItinerary(1, u, b)
    \/ \E u \in Users, i \in ItinIds, b \in UpdateBodies :
          SeqReady /\ StartUpdateItinerary(1, u, i, b)
    \/ \E u \in Users, i \in ItinIds : SeqReady /\ StartDeleteItinerary(1, u, i)
    \/ \E u \in Users, i \in ItinIds : SeqReady /\ StartShareItinerary(1, u, i)
    \/ \E i \in ItinIds : SeqReady /\ StartGetSharedItinerary(2, i)
    \/ Step(1)
    \/ ShareItineraryFind(1)
    \/ GetSharedItineraryFind(2)

SpecShare == InitHandlers /\ [][NextShare]_vars

ShareKinds == {"shareItinerary", "getSharedItinerary"}

=============================================================================
